---------------------------- MODULE Spec2Model ----------------------------
(***************************************************************************)
(* Model of the loco_controller: the rail network (rail_network.rs), the   *)
(* device registry (backend.rs), the Oracle control loop (oracle.rs) and   *)
(* the operator HTTP handlers (main.rs), with the enum codes of the wire   *)
(* protocol (loco_protocol/src/lib.rs).                                    *)
(*                                                                         *)
(* Option<T> is modelled as a sequence of length 0 (None) or 1 (Some(x)).  *)
(***************************************************************************)
EXTENDS Integers, Sequences, FiniteSets, TLC

VARIABLES
    stream,           \* LocoInfo.stream per loco: Option of an accepted connection
    location,         \* LocoInfo.location per loco: Option<SensorId>
    intent,           \* LocoInfo.intent per loco: Option<LocoIntent>
    actuator_stream,  \* ActuatorInfo.stream: Option of an accepted connection
    oracle_enabled,   \* Backend.oracle_enabled
    last_segment_id,  \* Oracle.last_segment_id: per loco Option<SegmentId>
    tick,             \* what the last step did if it was a call of Oracle::process
    wire,             \* the frames the last step wrote to device transports
    http,             \* the operator request the last step served, if any, and its response
    call,             \* SpecNet, SpecWire: the arguments of a call of a pure function
    ret,              \* SpecNet, SpecWire: what the calls made on them returned, in order
    conn,             \* the first frame of the connection the last step handled, if any,
                      \* and what handle_loco_connection returned
    pc,               \* SpecThreads: per thread, the operation it is in and where
    holder,           \* SpecThreads: per mutex, the thread that holds it, if any
    log,              \* SpecThreads: per transport, the events on it, in order
    clients           \* SpecThreads: per client of the locos port, how far it got

vars == <<stream, location, intent, actuator_stream, oracle_enabled,
          last_segment_id, tick, wire, http, call, ret, conn, pc, holder, log, clients>>

\* the variables of SpecThreads that the other specifications leave alone
threads == <<pc, holder, log, clients>>

None == <<>>
Some(x) == <<x>>

--------------------------------------------------------------------------
(* Bounds of the model                                                     *)

\* the Stop intents of the tick specification target the first
\* MaxStopTarget checkpoints of StopTargetOrder
MaxStopTarget == 1
\* the environment of Spec reports locos at the first MaxSensorId sensors
MaxSensorId == 1
\* the caller threads of SpecThreads make at most MaxCalls calls in all
MaxCalls == 2
\* the registries of SpecFault report locos at the first MaxFaultSensor sensors
MaxFaultSensor == 2
\* in a tick of SpecFault one of the first MaxWriteFailure command writes
\* fails, or none
MaxWriteFailure == 4
\* a SensorsStatus frame of SpecSensors holds at most MaxRecords records
MaxRecords == 2

--------------------------------------------------------------------------
(* loco_protocol/src/lib.rs: ids and enum codes                            *)

LocoIds == {"Loco1", "Loco2"}
SensorIds == {"RfidReader1", "RfidReader2", "RfidReader3", "RfidReader4",
              "RfidReader5", "RfidReader6", "RfidReader7", "RfidReader8"}
Directions == {"Forward", "Backward"}

ActuatorIds == {"SwitchRails1", "SwitchRails2", "SwitchRails3", "SwitchRails4",
                "SwitchRails5", "SwitchRails6", "SwitchRails7", "SwitchRails8"}
ActuatorTypes == {"SwitchRails"}
SwitchRailsStates == {"Direct", "Diverted"}
Operations == {"Connect", "ControlLoco", "LocoStatus", "SensorsStatus", "DriveActuator"}

\* the values of a u8
U8 == 0..255

BACKEND_PROTOCOL_MAGIC_NUMBER == 171

SPEED_PWM_RANGE == 100
SPEED_PWM_IDX_L == 100
SPEED_PWM_IDX_H == SPEED_PWM_IDX_L + SPEED_PWM_RANGE

\* a Speed value: the variant and, for PwmDutyCycle, its duty
Speed(tag, duty) == [tag |-> tag, duty |-> duty]
SpeedStop == Speed("Stop", 0)
SpeedSlow == Speed("Slow", 0)
SpeedNormal == Speed("Normal", 0)
SpeedFast == Speed("Fast", 0)

LocoIdTryFrom(value) ==
    CASE value = 1 -> Some("Loco1")
      [] value = 2 -> Some("Loco2")
      [] OTHER -> None

LocoIdToU8(item) ==
    CASE item = "Loco1" -> 1
      [] item = "Loco2" -> 2

SensorIdTryFrom(value) ==
    CASE value = 1 -> Some("RfidReader1")
      [] value = 2 -> Some("RfidReader2")
      [] value = 3 -> Some("RfidReader3")
      [] value = 4 -> Some("RfidReader4")
      [] value = 5 -> Some("RfidReader5")
      [] value = 6 -> Some("RfidReader6")
      [] value = 7 -> Some("RfidReader7")
      [] value = 8 -> Some("RfidReader8")
      [] OTHER -> None

SensorIdToU8(item) ==
    CASE item = "RfidReader1" -> 1
      [] item = "RfidReader2" -> 2
      [] item = "RfidReader3" -> 3
      [] item = "RfidReader4" -> 4
      [] item = "RfidReader5" -> 5
      [] item = "RfidReader6" -> 6
      [] item = "RfidReader7" -> 7
      [] item = "RfidReader8" -> 8

ActuatorIdTryFrom(value) ==
    CASE value = 1 -> Some("SwitchRails1")
      [] value = 2 -> Some("SwitchRails2")
      [] value = 3 -> Some("SwitchRails3")
      [] value = 4 -> Some("SwitchRails4")
      [] value = 5 -> Some("SwitchRails5")
      [] value = 6 -> Some("SwitchRails6")
      [] value = 7 -> Some("SwitchRails7")
      [] value = 8 -> Some("SwitchRails8")
      [] OTHER -> None

ActuatorIdToU8(item) ==
    CASE item = "SwitchRails1" -> 1
      [] item = "SwitchRails2" -> 2
      [] item = "SwitchRails3" -> 3
      [] item = "SwitchRails4" -> 4
      [] item = "SwitchRails5" -> 5
      [] item = "SwitchRails6" -> 6
      [] item = "SwitchRails7" -> 7
      [] item = "SwitchRails8" -> 8

ActuatorTypeTryFrom(value) ==
    CASE value = 1 -> Some("SwitchRails")
      [] OTHER -> None

ActuatorTypeToU8(item) ==
    CASE item = "SwitchRails" -> 1

SwitchRailsStateTryFrom(value) ==
    CASE value = 1 -> Some("Direct")
      [] value = 2 -> Some("Diverted")
      [] OTHER -> None

\* the two state codes exchanged
SwitchRailsStateToU8Swapped(item) ==
    CASE item = "Direct" -> 2
      [] item = "Diverted" -> 1

SwitchRailsStateToU8(item) ==
    CASE item = "Direct" -> 1
      [] item = "Diverted" -> 2

DirectionTryFrom(value) ==
    CASE value = 1 -> Some("Forward")
      [] value = 2 -> Some("Backward")
      [] OTHER -> None

\* the two direction codes exchanged
DirectionToU8Swapped(item) ==
    CASE item = "Forward" -> 2
      [] item = "Backward" -> 1

DirectionToU8(item) ==
    CASE item = "Forward" -> 1
      [] item = "Backward" -> 2

\* the PWM range taken with its upper end
SpeedTryFromInclusive(value) ==
    CASE value = 0 -> Some(SpeedStop)
      [] value = 1 -> Some(SpeedSlow)
      [] value = 2 -> Some(SpeedNormal)
      [] value = 3 -> Some(SpeedFast)
      [] value >= SPEED_PWM_IDX_L /\ value <= SPEED_PWM_IDX_H ->
            Some(Speed("PwmDutyCycle", value - SPEED_PWM_IDX_L))
      [] OTHER -> None

SpeedTryFrom(value) ==
    CASE value = 0 -> Some(SpeedStop)
      [] value = 1 -> Some(SpeedSlow)
      [] value = 2 -> Some(SpeedNormal)
      [] value = 3 -> Some(SpeedFast)
      [] value >= SPEED_PWM_IDX_L /\ value < SPEED_PWM_IDX_H ->
            Some(Speed("PwmDutyCycle", value - SPEED_PWM_IDX_L))
      [] OTHER -> None

SpeedToU8(item) ==
    CASE item.tag = "Stop" -> 0
      [] item.tag = "Slow" -> 1
      [] item.tag = "Normal" -> 2
      [] item.tag = "Fast" -> 3
      [] item.tag = "PwmDutyCycle" ->
            (IF item.duty > SPEED_PWM_RANGE THEN SPEED_PWM_RANGE ELSE item.duty)
                + SPEED_PWM_IDX_L

OperationTryFrom(value) ==
    CASE value = 1 -> Some("Connect")
      [] value = 2 -> Some("ControlLoco")
      [] value = 3 -> Some("LocoStatus")
      [] value = 4 -> Some("SensorsStatus")
      [] value = 5 -> Some("DriveActuator")
      [] OTHER -> None

OperationToU8(item) ==
    CASE item = "Connect" -> 1
      [] item = "ControlLoco" -> 2
      [] item = "LocoStatus" -> 3
      [] item = "SensorsStatus" -> 4
      [] item = "DriveActuator" -> 5

\* the enums of the protocol that cross the wire as one byte
WireTypes == {"Operation", "LocoId", "SensorId", "ActuatorId", "ActuatorType",
              "SwitchRailsState", "Direction", "Speed"}

\* the values of each
WireValues(type) ==
    CASE type = "Operation" -> Operations
      [] type = "LocoId" -> LocoIds
      [] type = "SensorId" -> SensorIds
      [] type = "ActuatorId" -> ActuatorIds
      [] type = "ActuatorType" -> ActuatorTypes
      [] type = "SwitchRailsState" -> SwitchRailsStates
      [] type = "Direction" -> Directions
      [] type = "Speed" -> {SpeedStop, SpeedSlow, SpeedNormal, SpeedFast}
                               \cup {Speed("PwmDutyCycle", p) : p \in U8}

\* the variant of loco_protocol::Error each TryFrom<u8> returns
UnknownError(type) ==
    CASE type = "Operation" -> "UnknownOperation"
      [] type = "LocoId" -> "UnknownLocoId"
      [] type = "SensorId" -> "UnknownSensorId"
      [] type = "ActuatorId" -> "UnknownActuatorId"
      [] type = "ActuatorType" -> "UnknownActuatorType"
      [] type = "SwitchRailsState" -> "UnknownSwitchRailsState"
      [] type = "Direction" -> "UnknownDirection"
      [] type = "Speed" -> "UnknownSpeed"

\* T::try_from(value) as the Result it is: Ok(item), or Err(UnknownT(value))
TryFromU8(type, value) ==
    LET item == CASE type = "Operation" -> OperationTryFrom(value)
                  [] type = "LocoId" -> LocoIdTryFrom(value)
                  [] type = "SensorId" -> SensorIdTryFrom(value)
                  [] type = "ActuatorId" -> ActuatorIdTryFrom(value)
                  [] type = "ActuatorType" -> ActuatorTypeTryFrom(value)
                  [] type = "SwitchRailsState" -> SwitchRailsStateTryFrom(value)
                  [] type = "Direction" -> DirectionTryFrom(value)
                  [] type = "Speed" -> SpeedTryFrom(value)
    IN  IF item = None THEN <<"Err", UnknownError(type), value>>
        ELSE <<"Ok", item[1]>>

\* u8::from(item)
IntoU8(type, item) ==
    CASE type = "Operation" -> OperationToU8(item)
      [] type = "LocoId" -> LocoIdToU8(item)
      [] type = "SensorId" -> SensorIdToU8(item)
      [] type = "ActuatorId" -> ActuatorIdToU8(item)
      [] type = "ActuatorType" -> ActuatorTypeToU8(item)
      [] type = "SwitchRailsState" -> SwitchRailsStateToU8(item)
      [] type = "Direction" -> DirectionToU8(item)
      [] type = "Speed" -> SpeedToU8(item)

\* Header {magic, operation, payload_len} followed by the payload, one byte
\* per u8 field (bincode legacy configuration: fixed-width integers)
Frame(operation, payload) ==
    <<BACKEND_PROTOCOL_MAGIC_NUMBER, OperationToU8(operation), Len(payload)>> \o payload

--------------------------------------------------------------------------
(* rail_network.rs                                                         *)

Priority0 == 0
Priority1 == 1
Priority2 == 2

TrackIds == {"Track1", "Station1", "Station2"}
CheckpointIds == {"Checkpoint1", "Checkpoint2", "Checkpoint3", "Checkpoint4",
                  "Checkpoint5", "Checkpoint6", "Station1", "Station2"}
SegmentIds == {"Segment1", "Segment2", "Segment3", "Segment4", "Segment5",
               "Segment6", "Segment7", "Segment8", "Segment9", "Segment10"}

\* impl Into<CheckpointId> for SensorId
SensorIdIntoCheckpointId(s) ==
    CASE s = "RfidReader1" -> "Checkpoint1"
      [] s = "RfidReader2" -> "Checkpoint2"
      [] s = "RfidReader3" -> "Checkpoint3"
      [] s = "RfidReader4" -> "Checkpoint4"
      [] s = "RfidReader5" -> "Checkpoint5"
      [] s = "RfidReader6" -> "Checkpoint6"
      [] s = "RfidReader7" -> "Station1"
      [] s = "RfidReader8" -> "Station2"

\* the match arms of impl TryInto<SegmentId> for (CheckpointId, CheckpointId),
\* in the order of the source
segment_arms ==
    << <<"Checkpoint1", "Checkpoint2", "Segment1">>,
       <<"Checkpoint2", "Checkpoint1", "Segment1">>,
       <<"Checkpoint2", "Checkpoint3", "Segment2">>,
       <<"Checkpoint3", "Checkpoint2", "Segment2">>,
       <<"Checkpoint3", "Checkpoint4", "Segment3">>,
       <<"Checkpoint4", "Checkpoint3", "Segment3">>,
       <<"Checkpoint4", "Checkpoint5", "Segment4">>,
       <<"Checkpoint5", "Checkpoint4", "Segment4">>,
       <<"Checkpoint5", "Checkpoint6", "Segment5">>,
       <<"Checkpoint6", "Checkpoint5", "Segment5">>,
       <<"Checkpoint6", "Checkpoint1", "Segment6">>,
       <<"Checkpoint1", "Checkpoint6", "Segment6">>,
       <<"Checkpoint6", "Station1", "Segment7">>,
       <<"Station1", "Checkpoint6", "Segment7">>,
       <<"Station1", "Checkpoint2", "Segment8">>,
       <<"Checkpoint2", "Station1", "Segment8">>,
       <<"Checkpoint3", "Station2", "Segment9">>,
       <<"Station2", "Checkpoint3", "Segment9">>,
       <<"Checkpoint5", "Station2", "Segment10">>,
       <<"Station2", "Checkpoint5", "Segment10">> >>

\* the lookup with the arm (Station2, Checkpoint5) forgotten
TryIntoSegmentIdOneWay(a, b) ==
    LET hits == SelectSeq(segment_arms,
                          LAMBDA arm : /\ arm[1] = a
                                       /\ arm[2] = b
                                       /\ ~(a = "Station2" /\ b = "Checkpoint5"))
    IN  IF hits = <<>> THEN None ELSE Some(Head(hits)[3])

\* (a, b).try_into(): the first arm that matches, None for
\* Err(ConvertCheckpointsIntoSegmentId)
TryIntoSegmentId(a, b) ==
    LET hits == SelectSeq(segment_arms, LAMBDA arm : arm[1] = a /\ arm[2] = b)
    IN  IF hits = <<>> THEN None ELSE Some(Head(hits)[3])

SwitchRails(actuator_id, state) == [actuator_id |-> actuator_id, state |-> state]

Segment(priority, switch_rails, conflicts) ==
    [priority |-> priority, switch_rails |-> switch_rails, conflicts |-> conflicts]

Checkpoint(forward, backward, track_id, priority) ==
    [checkpoint_ids |-> [d \in Directions |-> IF d = "Forward" THEN forward ELSE backward],
     track_id |-> track_id,
     priority |-> priority]

\* RailNetwork::new().checkpoints
checkpoints ==
    [c \in CheckpointIds |->
        CASE c = "Checkpoint1" ->
                Checkpoint(<<"Checkpoint2">>, <<"Checkpoint6">>, "Track1", Priority0)
          [] c = "Checkpoint2" ->
                Checkpoint(<<"Checkpoint3">>, <<"Checkpoint1", "Station1">>, "Track1", Priority0)
          [] c = "Checkpoint3" ->
                Checkpoint(<<"Checkpoint4", "Station2">>, <<"Checkpoint2">>, "Track1", Priority0)
          [] c = "Checkpoint4" ->
                Checkpoint(<<"Checkpoint5">>, <<"Checkpoint3">>, "Track1", Priority0)
          [] c = "Checkpoint5" ->
                Checkpoint(<<"Checkpoint6">>, <<"Checkpoint4", "Station2">>, "Track1", Priority0)
          [] c = "Checkpoint6" ->
                Checkpoint(<<"Checkpoint1", "Station1">>, <<"Checkpoint5">>, "Track1", Priority0)
          [] c = "Station1" ->
                Checkpoint(<<"Checkpoint2">>, <<"Checkpoint6">>, "Station1", Priority1)
          [] c = "Station2" ->
                Checkpoint(<<"Checkpoint5">>, <<"Checkpoint3">>, "Station2", Priority1)]

\* RailNetwork::new().segments
segments ==
    [s \in SegmentIds |->
        CASE s = "Segment1" ->
                Segment(Priority0, <<SwitchRails("SwitchRails2", "Direct")>>, <<"Segment8">>)
          [] s = "Segment2" -> Segment(Priority0, <<>>, <<>>)
          [] s = "Segment3" ->
                Segment(Priority0, <<SwitchRails("SwitchRails3", "Direct")>>, <<"Segment9">>)
          [] s = "Segment4" ->
                Segment(Priority0, <<SwitchRails("SwitchRails4", "Direct")>>, <<"Segment10">>)
          [] s = "Segment5" -> Segment(Priority0, <<>>, <<>>)
          [] s = "Segment6" ->
                Segment(Priority0, <<SwitchRails("SwitchRails1", "Direct")>>, <<"Segment7">>)
          [] s = "Segment7" ->
                Segment(Priority1, <<SwitchRails("SwitchRails1", "Diverted")>>, <<"Segment6">>)
          [] s = "Segment8" ->
                Segment(Priority1, <<SwitchRails("SwitchRails2", "Diverted")>>, <<"Segment1">>)
          [] s = "Segment9" ->
                Segment(Priority1, <<SwitchRails("SwitchRails3", "Diverted")>>, <<"Segment3">>)
          [] s = "Segment10" ->
                Segment(Priority1, <<SwitchRails("SwitchRails4", "Diverted")>>, <<"Segment4">>)]

\* RailNetwork::new().longest_path
longest_path == 6

\* slice::sort_by_key on a sequence of <<key, element>> pairs: a stable
\* sort by ascending key (insertion after the elements whose key is <=)
RECURSIVE sort_by_key(_)
sort_by_key(keyed) ==
    IF keyed = <<>> THEN <<>>
    ELSE LET init == sort_by_key(SubSeq(keyed, 1, Len(keyed) - 1))
             x == keyed[Len(keyed)]
             before == SelectSeq(init, LAMBDA e : e[1] <= x[1])
             after == SelectSeq(init, LAMBDA e : e[1] > x[1])
         IN  before \o <<x>> \o after

\* next_cp_ids.sort_by_key(|cid| self.checkpoint(cid).priority)
sort_checkpoints_by_priority(next_cp_ids) ==
    LET keyed == [i \in 1..Len(next_cp_ids) |->
                    <<checkpoints[next_cp_ids[i]].priority, next_cp_ids[i]>>]
        sorted == sort_by_key(keyed)
    IN  [i \in 1..Len(sorted) |-> sorted[i][2]]

\* a search that takes the first neighbour in list order
first_next_checkpoint_id(iteration, cp_id, direction, target_track_id) ==
    Some(Head(checkpoints[cp_id].checkpoint_ids[direction]))

RECURSIVE next_checkpoint_id_for_track_id_target(_, _, _, _)
next_checkpoint_id_for_track_id_target(iteration, cp_id, direction, target_track_id) ==
    LET next_cp_ids == checkpoints[cp_id].checkpoint_ids[direction]
        direct == SelectSeq(next_cp_ids,
                            LAMBDA c : checkpoints[c].track_id = target_track_id)
        sorted == sort_checkpoints_by_priority(next_cp_ids)
        RECURSIVE scan(_)
        scan(i) ==
            IF i > Len(sorted) THEN None
            ELSE IF iteration >= longest_path THEN None
            ELSE IF next_checkpoint_id_for_track_id_target(
                        iteration + 1, sorted[i], direction, target_track_id) # None
                 THEN Some(sorted[i])
            ELSE scan(i + 1)
    IN  IF direct # <<>> THEN Some(Head(direct)) ELSE scan(1)

\* a search that finds the target among the neighbours or not at all
direct_next_checkpoint_id(iteration, cp_id, direction, target_cp_id) ==
    LET direct == SelectSeq(checkpoints[cp_id].checkpoint_ids[direction],
                            LAMBDA c : c = target_cp_id)
    IN  IF direct # <<>> THEN Some(Head(direct)) ELSE None

RECURSIVE next_checkpoint_id_for_checkpoint_id_target(_, _, _, _)
next_checkpoint_id_for_checkpoint_id_target(iteration, cp_id, direction, target_cp_id) ==
    LET next_cp_ids == checkpoints[cp_id].checkpoint_ids[direction]
        direct == SelectSeq(next_cp_ids, LAMBDA c : c = target_cp_id)
        sorted == sort_checkpoints_by_priority(next_cp_ids)
        RECURSIVE scan(_)
        scan(i) ==
            IF i > Len(sorted) THEN None
            ELSE IF iteration >= longest_path THEN None
            ELSE IF next_checkpoint_id_for_checkpoint_id_target(
                        iteration + 1, sorted[i], direction, target_cp_id) # None
                 THEN Some(sorted[i])
            ELSE scan(i + 1)
    IN  IF direct # <<>> THEN Some(Head(direct)) ELSE scan(1)

\* a search that looks one checkpoint ahead only
next_for_track_id_one_ahead ==
    [cp_id \in CheckpointIds |-> [direction \in Directions |->
        [target_track_id \in TrackIds |->
            LET direct == SelectSeq(checkpoints[cp_id].checkpoint_ids[direction],
                                    LAMBDA c : checkpoints[c].track_id = target_track_id)
            IN  IF direct = <<>> THEN None ELSE Some(Head(direct))]]]

\* the two searches as the Oracle calls them (iteration 0), tabulated: the
\* network is immutable, so a call is a function of its arguments
next_for_track_id ==
    [cp_id \in CheckpointIds |-> [direction \in Directions |->
        [target_track_id \in TrackIds |->
            next_checkpoint_id_for_track_id_target(0, cp_id, direction, target_track_id)]]]

next_for_checkpoint_id ==
    [cp_id \in CheckpointIds |-> [direction \in Directions |->
        [target_cp_id \in CheckpointIds |->
            next_checkpoint_id_for_checkpoint_id_target(0, cp_id, direction, target_cp_id)]]]

--------------------------------------------------------------------------
(* backend.rs: the registry operations the Oracle and the handlers call    *)

\* a frame written to the transport of a loco or of the actuator bank
Written(to, bytes) == [to |-> to, bytes |-> bytes]

Drive(direction, target_track_id) ==
    [kind |-> "Drive", direction |-> direction, target |-> target_track_id]
Stop(direction, target_checkpoint_id) ==
    [kind |-> "Stop", direction |-> direction, target |-> target_checkpoint_id]

\* what the device does during one loco_status round trip: whether the
\* write of the request and the read of the reply succeed, and the two
\* bytes of the LocoStatusResponse
Reply(write_ok, read_ok, direction, speed) ==
    [write_ok |-> write_ok, read_ok |-> read_ok, direction |-> direction, speed |-> speed]

\* Backend::loco_status: err is "Ok" or the Error variant returned
loco_status(loco_id, reply) ==
    LET request == Written(loco_id, Frame("LocoStatus", <<>>))
        direction == DirectionTryFrom(reply.direction)
        speed == SpeedTryFrom(reply.speed)
    IN  IF stream[loco_id] = None
            THEN [err |-> "LocoNotConnected", wire |-> <<>>, status |-> None]
        ELSE IF ~reply.write_ok
            THEN [err |-> "WriteTcpStream", wire |-> <<>>, status |-> None]
        ELSE IF ~reply.read_ok
            THEN [err |-> "DecodeFromStream", wire |-> <<request>>, status |-> None]
        ELSE IF direction = None \/ speed = None
            THEN [err |-> "ConvertLocoProtocolType", wire |-> <<request>>, status |-> None]
        ELSE [err |-> "Ok", wire |-> <<request>>,
              status |-> Some([direction |-> direction[1], speed |-> speed[1],
                               location |-> location[loco_id],
                               intent |-> intent[loco_id]])]

\* Backend::control_loco
control_loco(loco_id, direction, speed, write_ok) ==
    LET message == Frame("ControlLoco", <<DirectionToU8(direction), SpeedToU8(speed)>>)
    IN  IF stream[loco_id] = None THEN [err |-> "LocoNotConnected", wire |-> <<>>]
        ELSE IF ~write_ok THEN [err |-> "WriteTcpStream", wire |-> <<>>]
        ELSE [err |-> "Ok", wire |-> <<Written(loco_id, message)>>]

\* Backend::drive_actuator
drive_actuator(actuator_id, actuator_type, actuator_state, write_ok) ==
    LET message == Frame("DriveActuator",
                         <<ActuatorIdToU8(actuator_id), ActuatorTypeToU8(actuator_type),
                           actuator_state>>)
    IN  IF actuator_stream = None THEN [err |-> "ActuatorsNotConnected", wire |-> <<>>]
        ELSE IF ~write_ok THEN [err |-> "WriteTcpStream", wire |-> <<>>]
        ELSE [err |-> "Ok", wire |-> <<Written("Actuators", message)>>]

\* a gate that is always open: the flag is not consulted
oracle_is_enabled_always == TRUE

\* a gate that is always closed: the flag is not consulted
oracle_is_enabled_never == FALSE

\* Backend::oracle_enabled()
oracle_is_enabled == oracle_enabled

--------------------------------------------------------------------------
(* oracle.rs                                                               *)

ActiveLoco(id, speed, loc, int) ==
    [id |-> id, speed |-> speed, location |-> loc, intent |-> int]

\* an ActiveSegment whose direction is Forward whatever the intent says
ActiveSegmentForward(id, segment, direction, loco_id) ==
    [id |-> id, segment |-> segment, direction |-> "Forward", loco_id |-> loco_id]

ActiveSegment(id, segment, direction, loco_id) ==
    [id |-> id, segment |-> segment, direction |-> direction, loco_id |-> loco_id]

\* active_locos without the LocoNotConnected arm: a loco that is not
\* connected ends the gathering like any other error
RECURSIVE active_locos_strict(_, _)
active_locos_strict(order, reply) ==
    IF order = <<>> THEN [err |-> <<"Ok">>, locos |-> <<>>, wire |-> <<>>]
    ELSE LET loco_id == Head(order)
             r == loco_status(loco_id, reply[loco_id])
             rest == active_locos_strict(Tail(order), reply)
         IN  IF r.err = "Ok"
                 THEN [err |-> rest.err,
                       locos |-> IF rest.err = <<"Ok">>
                                 THEN <<[id |-> loco_id, speed |-> r.status[1].speed,
                                         location |->
                                            IF r.status[1].location = None THEN None
                                            ELSE Some(SensorIdIntoCheckpointId(
                                                        r.status[1].location[1])),
                                         intent |-> r.status[1].intent]>> \o rest.locos
                                 ELSE <<>>,
                       wire |-> r.wire \o rest.wire]
             ELSE [err |-> <<"LocoStatus", r.err>>, locos |-> <<>>, wire |-> r.wire]

\* a gathering that skips every loco whose round trip fails
RECURSIVE active_locos_lenient(_, _)
active_locos_lenient(order, reply) ==
    IF order = <<>> THEN [err |-> <<"Ok">>, locos |-> <<>>, wire |-> <<>>]
    ELSE LET loco_id == Head(order)
             r == loco_status(loco_id, reply[loco_id])
             rest == active_locos_lenient(Tail(order), reply)
         IN  IF r.err = "Ok"
                 THEN [err |-> <<"Ok">>,
                       locos |-> <<ActiveLoco(loco_id, r.status[1].speed,
                                      IF r.status[1].location = None THEN None
                                      ELSE Some(SensorIdIntoCheckpointId(
                                                    r.status[1].location[1])),
                                      r.status[1].intent)>> \o rest.locos,
                       wire |-> r.wire \o rest.wire]
             ELSE [rest EXCEPT !.wire = r.wire \o rest.wire]

\* Oracle::active_locos over the ids in the order loco_ids() yields them;
\* reply[l] is what loco l's device does in its round trip
RECURSIVE active_locos(_, _)
active_locos(order, reply) ==
    IF order = <<>> THEN [err |-> <<"Ok">>, locos |-> <<>>, wire |-> <<>>]
    ELSE LET loco_id == Head(order)
             r == loco_status(loco_id, reply[loco_id])
             rest == active_locos(Tail(order), reply)
         IN  IF r.err = "Ok"
                 THEN [err |-> rest.err,
                       locos |-> IF rest.err = <<"Ok">>
                                 THEN <<ActiveLoco(loco_id, r.status[1].speed,
                                          IF r.status[1].location = None THEN None
                                          ELSE Some(SensorIdIntoCheckpointId(
                                                        r.status[1].location[1])),
                                          r.status[1].intent)>> \o rest.locos
                                 ELSE <<>>,
                       wire |-> r.wire \o rest.wire]
             ELSE IF r.err = "LocoNotConnected" THEN rest
             ELSE [err |-> <<"LocoStatus", r.err>>, locos |-> <<>>, wire |-> r.wire]

\* the checkpoints of the stopped locos that hold an intent
busy_checkpoint_ids_with_intent(locos) ==
    LET stopped == SelectSeq(locos, LAMBDA a : /\ a.location # None
                                              /\ a.intent # None
                                              /\ a.speed = SpeedStop)
    IN  [i \in 1..Len(stopped) |-> stopped[i].location[1]]

\* the first loop of determine_active_segments
busy_checkpoint_ids(locos) ==
    LET stopped == SelectSeq(locos, LAMBDA a : a.location # None /\ a.speed = SpeedStop)
    IN  [i \in 1..Len(stopped) |-> stopped[i].location[1]]

Contains(seq, x) == \E i \in 1..Len(seq) : seq[i] = x

\* the iteration without the arrival test of the Stop arm: a Stop intent is
\* always searched for
active_segment_of_searching(active_loco, busy) ==
    IF active_loco.location = None \/ active_loco.intent = None
        THEN [err |-> <<"Ok">>, pushed |-> <<>>]
    ELSE
    LET checkpoint_id == active_loco.location[1]
        int == active_loco.intent[1]
        direction == int.direction
        null_segment == ActiveSegment(None, None, direction, active_loco.id)
        next == IF int.kind = "Drive"
                THEN next_for_track_id[checkpoint_id][direction][int.target]
                ELSE next_for_checkpoint_id[checkpoint_id][direction][int.target]
        sid == TryIntoSegmentId(checkpoint_id, next[1])
    IN  IF next = None
            THEN [err |-> <<"NextCheckpointNotFound">>, pushed |-> <<>>]
        ELSE IF Contains(busy, next[1])
            THEN [err |-> <<"Ok">>, pushed |-> <<null_segment>>]
        ELSE IF sid = None
            THEN [err |-> <<"ConvertCheckpointsIntoSegmentId">>, pushed |-> <<>>]
        ELSE [err |-> <<"Ok">>,
              pushed |-> <<ActiveSegment(sid, Some(segments[sid[1]]),
                                         direction, active_loco.id)>>]

\* an iteration whose Drive arm has an arrival test: a loco that is on the
\* target track is pushed a null segment
active_segment_of_arriving(active_loco, busy) ==
    IF active_loco.location # None /\ active_loco.intent # None
            /\ active_loco.intent[1].kind = "Drive"
            /\ checkpoints[active_loco.location[1]].track_id = active_loco.intent[1].target
        THEN [err |-> <<"Ok">>,
              pushed |-> <<ActiveSegment(None, None, active_loco.intent[1].direction,
                                         active_loco.id)>>]
    ELSE active_segment_of_searching(active_loco, busy)

\* one iteration of the second loop of determine_active_segments: err and
\* the ActiveSegment pushed, if any
active_segment_of(active_loco, busy) ==
    IF active_loco.location = None \/ active_loco.intent = None
        THEN [err |-> <<"Ok">>, pushed |-> <<>>]
    ELSE
    LET checkpoint_id == active_loco.location[1]
        int == active_loco.intent[1]
        direction == int.direction
        null_segment == ActiveSegment(None, None, direction, active_loco.id)
        next == IF int.kind = "Drive"
                THEN next_for_track_id[checkpoint_id][direction][int.target]
                ELSE next_for_checkpoint_id[checkpoint_id][direction][int.target]
        sid == TryIntoSegmentId(checkpoint_id, next[1])
    IN  IF int.kind = "Stop" /\ int.target = checkpoint_id
            THEN [err |-> <<"Ok">>, pushed |-> <<null_segment>>]
        ELSE IF next = None
            THEN [err |-> <<"NextCheckpointNotFound">>, pushed |-> <<>>]
        ELSE IF Contains(busy, next[1])
            THEN [err |-> <<"Ok">>, pushed |-> <<null_segment>>]
        ELSE IF sid = None
            THEN [err |-> <<"ConvertCheckpointsIntoSegmentId">>, pushed |-> <<>>]
        ELSE [err |-> <<"Ok">>,
              pushed |-> <<ActiveSegment(sid, Some(segments[sid[1]]),
                                         direction, active_loco.id)>>]

\* Oracle::determine_active_segments after active_locos returned Ok(locos)
RECURSIVE plan_from(_, _, _)
plan_from(locos, i, busy) ==
    IF i > Len(locos) THEN [err |-> <<"Ok">>, active_segments |-> <<>>]
    ELSE LET one == active_segment_of(locos[i], busy)
             rest == plan_from(locos, i + 1, busy)
         IN  IF one.err # <<"Ok">> THEN [err |-> one.err, active_segments |-> <<>>]
             ELSE IF rest.err # <<"Ok">> THEN rest
             ELSE [err |-> <<"Ok">>, active_segments |-> one.pushed \o rest.active_segments]

determine_active_segments(locos) == plan_from(locos, 1, busy_checkpoint_ids(locos))

\* a re-ordering that never inserts: every segment is pushed at the end
insertion_idx_never(segment, sorted, last) == 0

\* the index at which sort_active_segments inserts `segment` into `sorted`,
\* 0 when it pushes it at the end
insertion_idx(segment, sorted, last) ==
    IF segment.id = None \/ last[segment.loco_id] = None THEN 0
    ELSE LET hits == {i \in 1..Len(sorted) :
                        /\ sorted[i].id # None
                        /\ segment.id[1] = sorted[i].id[1]
                        /\ segment.id[1] = last[segment.loco_id][1]}
         IN  IF hits = {} THEN 0 ELSE CHOOSE i \in hits : \A j \in hits : i <= j

\* the first loop of sort_active_segments
RECURSIVE reorder(_, _, _)
reorder(active_segments, n, last) ==
    IF n = 0 THEN <<>>
    ELSE LET sorted == reorder(active_segments, n - 1, last)
             segment == active_segments[n]
             i == insertion_idx(segment, sorted, last)
         IN  IF i = 0 THEN Append(sorted, segment)
             ELSE SubSeq(sorted, 1, i - 1) \o <<segment>> \o SubSeq(sorted, i, Len(sorted))

\* a key that puts the segments of Priority1 before those of Priority0
priority_key_inverted(s) ==
    IF s.segment # None THEN Priority1 - s.segment[1].priority ELSE Priority2

\* a key that is the same for every entry
priority_key_flat(s) == Priority0

\* the key of the sort_by_key call of sort_active_segments
priority_key(s) == IF s.segment # None THEN s.segment[1].priority ELSE Priority2

\* Oracle::sort_active_segments
sort_active_segments(active_segments, last) ==
    LET reordered == reorder(active_segments, Len(active_segments), last)
        keyed == [i \in 1..Len(reordered) |-> <<priority_key(reordered[i]), reordered[i]>>]
        sorted == sort_by_key(keyed)
    IN  [i \in 1..Len(sorted) |-> sorted[i][2]]

\* a grant that is withheld from every segment that has conflicts
granted_conflict_free(active_segment, busy_segment_ids) ==
    /\ active_segment.id # None
    /\ active_segment.segment # None
    /\ ~Contains(busy_segment_ids, active_segment.id[1])
    /\ active_segment.segment[1].conflicts = <<>>

\* a grant that looks at the segment itself but not at its conflicts
granted_without_conflicts(active_segment, busy_segment_ids) ==
    /\ active_segment.id # None
    /\ active_segment.segment # None
    /\ ~Contains(busy_segment_ids, active_segment.id[1])

\* whether determine_controls grants `active_segment` given the segments
\* already busy in this pass
granted(active_segment, busy_segment_ids) ==
    /\ active_segment.id # None
    /\ active_segment.segment # None
    /\ ~Contains(busy_segment_ids, active_segment.id[1])
    /\ \A k \in 1..Len(active_segment.segment[1].conflicts) :
            ~Contains(busy_segment_ids, active_segment.segment[1].conflicts[k])

\* controls that set every switch of the segment to Direct
switch_controls_direct(segment) ==
    [k \in 1..Len(segment.switch_rails) |->
        <<segment.switch_rails[k].actuator_id, "SwitchRails", 1>>]

\* the actuator controls determine_controls pushes for a granted segment
switch_controls(segment) ==
    [k \in 1..Len(segment.switch_rails) |->
        <<segment.switch_rails[k].actuator_id, "SwitchRails",
          SwitchRailsStateToU8(segment.switch_rails[k].state)>>]

\* a map that is left as it was
insert_nothing(last, loco_id, segment_id) == last

\* a map that holds the new entry only
insert_alone(last, loco_id, segment_id) ==
    [l \in LocoIds |-> IF l = loco_id THEN Some(segment_id) ELSE None]

\* self.last_segment_id.insert(loco_id, segment_id)
insert(last, loco_id, segment_id) == [last EXCEPT ![loco_id] = Some(segment_id)]

\* Oracle::determine_controls on the first n entries: the two command
\* lists, the busy segments and last_segment_id after them
RECURSIVE determine_controls(_, _, _)
determine_controls(active_segments, n, last) ==
    IF n = 0
        THEN [actuator_controls |-> <<>>, loco_controls |-> <<>>,
              busy_segment_ids |-> <<>>, last_segment_id |-> last]
    ELSE LET acc == determine_controls(active_segments, n - 1, last)
             a == active_segments[n]
         IN  IF granted(a, acc.busy_segment_ids)
                 THEN [actuator_controls |->
                            acc.actuator_controls \o switch_controls(a.segment[1]),
                       loco_controls |->
                            Append(acc.loco_controls, <<a.loco_id, a.direction, SpeedNormal>>),
                       busy_segment_ids |-> Append(acc.busy_segment_ids, a.id[1]),
                       last_segment_id |-> insert(acc.last_segment_id, a.loco_id, a.id[1])]
             ELSE [acc EXCEPT !.loco_controls =
                        Append(acc.loco_controls, <<a.loco_id, a.direction, SpeedStop>>)]

\* loops that go on after a write that failed
RECURSIVE apply_controls_best_effort(_, _, _, _)
apply_controls_best_effort(actuator_controls, loco_controls, k, wfail) ==
    LET na == Len(actuator_controls)
        r == IF k <= na
             THEN drive_actuator(actuator_controls[k][1], actuator_controls[k][2],
                                 actuator_controls[k][3], k # wfail)
             ELSE control_loco(loco_controls[k - na][1], loco_controls[k - na][2],
                               loco_controls[k - na][3], k # wfail)
        rest == apply_controls_best_effort(actuator_controls, loco_controls, k + 1, wfail)
    IN  IF k > na + Len(loco_controls)
            THEN [stage |-> "Done", result |-> <<"Ok">>, wire |-> <<>>]
        ELSE IF r.err # "Ok"
            THEN [stage |-> IF k <= na THEN "Actuators" ELSE "Locos",
                  result |-> IF k <= na THEN <<"DriveActuator", r.err>>
                             ELSE <<"ControlLoco", r.err>>,
                  wire |-> rest.wire]
        ELSE [rest EXCEPT !.wire = r.wire \o rest.wire]

\* the two loops at the end of Oracle::process: the commands are written in
\* order until one fails; the write number wfail fails (0: none does)
RECURSIVE apply_controls(_, _, _, _)
apply_controls(actuator_controls, loco_controls, k, wfail) ==
    LET na == Len(actuator_controls)
        r == IF k <= na
             THEN drive_actuator(actuator_controls[k][1], actuator_controls[k][2],
                                 actuator_controls[k][3], k # wfail)
             ELSE control_loco(loco_controls[k - na][1], loco_controls[k - na][2],
                               loco_controls[k - na][3], k # wfail)
        rest == apply_controls(actuator_controls, loco_controls, k + 1, wfail)
    IN  IF k > na + Len(loco_controls)
            THEN [stage |-> "Done", result |-> <<"Ok">>, wire |-> <<>>]
        ELSE IF r.err # "Ok"
            THEN [stage |-> IF k <= na THEN "Actuators" ELSE "Locos",
                  result |-> IF k <= na THEN <<"DriveActuator", r.err>>
                             ELSE <<"ControlLoco", r.err>>,
                  wire |-> <<>>]
        ELSE [rest EXCEPT !.wire = r.wire \o rest.wire]

\* the record of a call of Oracle::process: how far it got (Disabled,
\* Gather, Plan: it returned from there; Actuators, Locos: a write of that
\* loop failed; Done), what it returned (<<"Ok">> or the Error variant with
\* its source) and the values of its locals
Tick(stage, result, locos, active_segments, sorted, actuator_controls, loco_controls) ==
    [stage |-> stage, result |-> result, active_locos |-> locos,
     active_segments |-> active_segments, sorted_active_segments |-> sorted,
     actuator_controls |-> actuator_controls, loco_controls |-> loco_controls]

NoTick == Tick("NotCalled", <<"Ok">>, <<>>, <<>>, <<>>, <<>>, <<>>)

\* Oracle::process once backend.oracle_enabled() has been read as true:
\* order is the order in which loco_ids() yields the ids, reply[l] what
\* loco l's device does in its status round trip, wfail the command write
\* that fails (0: none)
process_enabled(order, reply, wfail) ==
    \E gathered \in {active_locos(order, reply)} :
    \E planned \in {determine_active_segments(gathered.locos)} :
    \E sorted \in {sort_active_segments(planned.active_segments, last_segment_id)} :
    \E controls \in {determine_controls(sorted, Len(sorted), last_segment_id)} :
    \E applied \in {apply_controls(controls.actuator_controls, controls.loco_controls,
                                   1, wfail)} :
        /\ tick' =
            IF gathered.err # <<"Ok">>
                THEN Tick("Gather", gathered.err, <<>>, <<>>, <<>>, <<>>, <<>>)
            ELSE IF planned.err # <<"Ok">>
                THEN Tick("Plan", planned.err, gathered.locos, <<>>, <<>>, <<>>, <<>>)
            ELSE Tick(applied.stage, applied.result, gathered.locos,
                      planned.active_segments, sorted,
                      controls.actuator_controls, controls.loco_controls)
        /\ wire' =
            IF gathered.err # <<"Ok">> \/ planned.err # <<"Ok">> THEN gathered.wire
            ELSE gathered.wire \o applied.wire
        /\ last_segment_id' =
            IF gathered.err = <<"Ok">> /\ planned.err = <<"Ok">>
            THEN controls.last_segment_id
            ELSE last_segment_id
        /\ http' = None
        /\ conn' = None
        /\ UNCHANGED <<stream, location, intent, actuator_stream, oracle_enabled,
                       call, ret>>

\* one call of Oracle::process by backend_oracle
process(order, reply, wfail) ==
    IF ~oracle_is_enabled
    THEN /\ tick' = Tick("Disabled", <<"Ok">>, <<>>, <<>>, <<>>, <<>>, <<>>)
         /\ wire' = <<>>
         /\ http' = None
         /\ conn' = None
         /\ UNCHANGED <<stream, location, intent, actuator_stream, oracle_enabled,
                        last_segment_id, call, ret, threads>>
    ELSE /\ process_enabled(order, reply, wfail)
         /\ UNCHANGED threads

--------------------------------------------------------------------------
(* backend.rs: connections, sensor ingest, intents and mode                *)

\* the bytes a new connection or the sensor session delivers: whether the
\* 3-byte header can be read at all, its magic and operation, and the
\* payload that follows
Incoming(header_ok, magic, operation, payload) ==
    [header_ok |-> header_ok, magic |-> magic, operation |-> operation,
     payload |-> payload]

\* Backend::retrieve_header_op
retrieve_header_op(in) ==
    IF ~in.header_ok THEN [err |-> "DecodeFromStream", op |-> None]
    ELSE IF in.magic # BACKEND_PROTOCOL_MAGIC_NUMBER
        THEN [err |-> "InvalidBackendProtocolMagicNumber", op |-> None]
    ELSE IF OperationTryFrom(in.operation) = None
        THEN [err |-> "ConvertLocoProtocolType", op |-> None]
    ELSE [err |-> "Ok", op |-> OperationTryFrom(in.operation)]

\* the TcpStream an accept yields
Accepted == "TcpStream"

\* a Connect whose loco id is unknown taken as one of the first loco
handle_op_connect_lenient(in) ==
    IF in.payload = <<>> THEN [err |-> "DecodeFromStream", loco_id |-> None]
    ELSE IF LocoIdTryFrom(in.payload[1]) = None
        THEN [err |-> "Ok", loco_id |-> Some("Loco1")]
    ELSE [err |-> "Ok", loco_id |-> LocoIdTryFrom(in.payload[1])]

\* Backend::handle_op_connect: err and the loco whose stream is replaced
handle_op_connect(in) ==
    IF in.payload = <<>> THEN [err |-> "DecodeFromStream", loco_id |-> None]
    ELSE IF LocoIdTryFrom(in.payload[1]) = None
        THEN [err |-> "ConvertLocoProtocolType", loco_id |-> None]
    ELSE [err |-> "Ok", loco_id |-> LocoIdTryFrom(in.payload[1])]

\* a registry that holds the new session only
install_stream_alone(loco_id) ==
    [l \in LocoIds |-> IF l = loco_id THEN Some(Accepted) ELSE None]

\* self.loco_info(&loco_id).lock().unwrap().stream = Some(stream)
install_stream(loco_id) == [stream EXCEPT ![loco_id] = Some(Accepted)]

\* backend_locos accepts a connection and calls Backend::handle_loco_connection
handle_loco_connection(in) ==
    LET hdr == retrieve_header_op(in)
        con == handle_op_connect(in)
        installs == hdr.err = "Ok" /\ hdr.op = Some("Connect") /\ con.err = "Ok"
    IN  /\ stream' = IF installs
                     THEN install_stream(con.loco_id[1])
                     ELSE stream
        /\ conn' = Some([frame |-> in,
                         result |-> IF hdr.err # "Ok" THEN <<hdr.err>>
                                    ELSE IF hdr.op # Some("Connect")
                                        THEN <<"UnsupportedOperation", hdr.op[1]>>
                                    ELSE <<con.err>>])
        /\ tick' = NoTick
        /\ wire' = <<>>
        /\ http' = None
        /\ UNCHANGED <<location, intent, actuator_stream, oracle_enabled, last_segment_id,
                       call, ret, threads>>

\* backend_actuators accepts a connection and calls
\* Backend::handle_actuators_connection
handle_actuators_connection ==
    /\ actuator_stream' = Some(Accepted)
    /\ tick' = NoTick
    /\ wire' = <<>>
    /\ http' = None
    /\ conn' = None
    /\ UNCHANGED <<stream, location, intent, oracle_enabled, last_segment_id,
                   call, ret, threads>>

\* an ingest that records the locations of connected locos only
RECURSIVE sensors_status_connected(_, _, _)
sensors_status_connected(records, n, loc) ==
    IF n = 0 THEN [err |-> "Ok", location |-> loc]
    ELSE LET acc == sensors_status_connected(records, n - 1, loc)
             loco_id == LocoIdTryFrom(records[n][2])
             sensor_id == SensorIdTryFrom(records[n][1])
         IN  IF acc.err # "Ok" THEN acc
             ELSE IF loco_id = None \/ sensor_id = None
                 THEN [acc EXCEPT !.err = "ConvertLocoProtocolType"]
             ELSE IF stream[loco_id[1]] = None THEN acc
             ELSE [acc EXCEPT !.location[loco_id[1]] = Some(sensor_id[1])]

\* Backend::handle_op_sensors_status on the records that follow the len
\* byte: the locations after the first n records, and whether a record
\* among them failed to convert (the loop stops at the first that does)
RECURSIVE sensors_status(_, _, _)
sensors_status(records, n, loc) ==
    IF n = 0 THEN [err |-> "Ok", location |-> loc]
    ELSE LET acc == sensors_status(records, n - 1, loc)
             loco_id == LocoIdTryFrom(records[n][2])
             sensor_id == SensorIdTryFrom(records[n][1])
         IN  IF acc.err # "Ok" THEN acc
             ELSE IF loco_id = None \/ sensor_id = None
                 THEN [acc EXCEPT !.err = "ConvertLocoProtocolType"]
             ELSE [acc EXCEPT !.location[loco_id[1]] = Some(sensor_id[1])]

\* the match of Backend::serve_sensors on one frame: what the iteration
\* returns with (<<"Ok">>: the loop goes on) and the locations after it
serve_sensors_frame(in) ==
    LET hdr == retrieve_header_op(in)
        upd == sensors_status(in.payload, Len(in.payload), location)
    IN  IF hdr.err # "Ok" THEN [err |-> <<hdr.err>>, location |-> location]
        ELSE IF hdr.op # Some("SensorsStatus")
            THEN [err |-> <<"UnsupportedOperation", hdr.op[1]>>, location |-> location]
        ELSE [err |-> <<upd.err>>, location |-> upd.location]

\* one iteration of the loop of Backend::serve_sensors
serve_sensors(in) ==
        /\ location' = serve_sensors_frame(in).location
        /\ tick' = NoTick
        /\ wire' = <<>>
        /\ http' = None
        /\ conn' = None
        /\ UNCHANGED <<stream, intent, actuator_stream, oracle_enabled, last_segment_id,
                       call, ret, threads>>

--------------------------------------------------------------------------
(* main.rs: the operator HTTP handlers                                     *)

\* an operator request (its handler, its form and whether the transport
\* write it leads to succeeds) and the status of the response
Response(handler, form, write_ok, status) ==
    Some([handler |-> handler, form |-> form, write_ok |-> write_ok, status |-> status])

\* POST /loco_intent: Backend::set_loco_intent
loco_intent(loco_id, int) ==
    /\ intent' = [intent EXCEPT ![loco_id] = Some(int)]
    /\ tick' = NoTick
    /\ wire' = <<>>
    /\ http' = Response("loco_intent", <<loco_id, int>>, TRUE, 200)
    /\ conn' = None
    /\ UNCHANGED <<stream, location, actuator_stream, oracle_enabled, last_segment_id,
                   call, ret, threads>>

\* POST /oracle_mode: Backend::set_oracle_mode
oracle_mode(mode) ==
    /\ oracle_enabled' = (mode = "Auto")
    /\ tick' = NoTick
    /\ wire' = <<>>
    /\ http' = Response("oracle_mode", <<mode>>, TRUE, 200)
    /\ conn' = None
    /\ UNCHANGED <<stream, location, intent, actuator_stream, last_segment_id,
                   call, ret, threads>>

\* POST /control_loco
http_control_loco(loco_id, direction, speed, write_ok) ==
    LET r == control_loco(loco_id, direction, speed, write_ok)
    IN  /\ wire' = IF oracle_is_enabled THEN <<>> ELSE r.wire
        /\ http' = Response("control_loco", <<loco_id, direction, speed>>, write_ok,
                            IF oracle_is_enabled \/ r.err # "Ok" THEN 500 ELSE 200)
        /\ tick' = NoTick
        /\ conn' = None
        /\ UNCHANGED <<stream, location, intent, actuator_stream, oracle_enabled,
                       last_segment_id, call, ret, threads>>

\* POST /drive_switch_rails
http_drive_switch_rails(actuator_id, state, write_ok) ==
    LET r == drive_actuator(actuator_id, "SwitchRails", SwitchRailsStateToU8(state),
                            write_ok)
    IN  /\ wire' = IF oracle_is_enabled THEN <<>> ELSE r.wire
        /\ http' = Response("drive_switch_rails", <<actuator_id, state>>, write_ok,
                            IF oracle_is_enabled \/ r.err # "Ok" THEN 500 ELSE 200)
        /\ tick' = NoTick
        /\ conn' = None
        /\ UNCHANGED <<stream, location, intent, actuator_stream, oracle_enabled,
                       last_segment_id, call, ret, threads>>

\* GET /loco_status/{loco_id}
http_loco_status(loco_id, reply) ==
    LET r == loco_status(loco_id, reply)
    IN  /\ wire' = r.wire
        /\ http' = Response("loco_status", <<loco_id>>, reply.write_ok /\ reply.read_ok,
                            IF r.err # "Ok" THEN 500 ELSE 200)
        /\ tick' = NoTick
        /\ conn' = None
        /\ UNCHANGED <<stream, location, intent, actuator_stream, oracle_enabled,
                       last_segment_id, call, ret, threads>>

--------------------------------------------------------------------------
(* What the environment does                                               *)

\* the orders in which HashMap iteration (Backend::loco_ids) can yield the ids
LocoOrders == {<<"Loco1", "Loco2">>, <<"Loco2", "Loco1">>}

\* a device that answers a status request: Forward, and Stop or Normal
HealthyReplies == {Reply(TRUE, TRUE, 1, 0), Reply(TRUE, TRUE, 1, 2)}

\* a device whose round trip fails: the write fails, the reply cannot be
\* read, or the reply carries an unknown direction or speed
FailingReplies == {Reply(FALSE, TRUE, 1, 0), Reply(TRUE, FALSE, 1, 0),
                   Reply(TRUE, TRUE, 3, 0), Reply(TRUE, TRUE, 1, 4)}

\* the checkpoints in the order in which the bounds admit them as targets
\* of Stop intents
StopTargetOrder == <<"Station1", "Checkpoint2", "Checkpoint3", "Station2",
                     "Checkpoint1", "Checkpoint4", "Checkpoint5", "Checkpoint6">>

Min(a, b) == IF a < b THEN a ELSE b

StopTargets(n) == {StopTargetOrder[i] : i \in 1..Min(n, Len(StopTargetOrder))}

\* the intents of the tick specification
TickIntents ==
    {Drive(d, t) : d \in Directions, t \in TrackIds}
        \cup {Stop(d, c) : d \in Directions, c \in StopTargets(MaxStopTarget)}

\* the bytes the sensor device of Spec sends as sensor ids: the first
\* MaxSensorId sensors and one unknown id
SpecSensorBytes == (1..Min(MaxSensorId, 8)) \cup {9}

\* the intents the operator of Spec posts
SpecIntents == {Drive("Forward", "Track1"), Stop("Forward", "Checkpoint1")}

\* the first frames of the connections of Spec
SpecConnects ==
    {Incoming(TRUE, BACKEND_PROTOCOL_MAGIC_NUMBER, 1, <<b>>) : b \in 1..3}
        \cup {Incoming(TRUE, BACKEND_PROTOCOL_MAGIC_NUMBER, 2, <<1>>),
              Incoming(TRUE, BACKEND_PROTOCOL_MAGIC_NUMBER, 9, <<1>>),
              Incoming(TRUE, BACKEND_PROTOCOL_MAGIC_NUMBER, 1, <<>>),
              Incoming(TRUE, 0, 1, <<1>>),
              Incoming(FALSE, 0, 0, <<>>)}

\* the frames of the sensor session of Spec: one record each
SpecSensorFrames ==
    {Incoming(TRUE, BACKEND_PROTOCOL_MAGIC_NUMBER, 4, <<r>>) :
        r \in SpecSensorBytes \X (1..3)}
        \cup {Incoming(TRUE, BACKEND_PROTOCOL_MAGIC_NUMBER, 1, <<>>),
              Incoming(TRUE, 0, 4, <<>>)}

\* what the devices of Spec do during a tick: the connected ones answer, or
\* one of them fails; a loco without a session has no device to do anything
SpecReplies ==
    LET Quiet == Reply(TRUE, TRUE, 1, 2)
        connected == {l \in LocoIds : stream[l] # None}
    IN  {[l \in LocoIds |-> IF l \in connected THEN h[l] ELSE Quiet] :
            h \in [LocoIds -> HealthyReplies]}
        \cup {[l \in LocoIds |-> IF l = f THEN r ELSE Quiet] :
                f \in connected, r \in FailingReplies}

\* the command writes of a tick that can fail in Spec (0: none fails)
SpecWriteFailures == 0..1

\* what a tick of Spec meets: an enumeration order, what the devices do and
\* the write that fails; a tick that finds the Oracle disabled consults none
\* of them, so one choice stands for all
SpecTickInputs ==
    IF oracle_enabled
    THEN LocoOrders \X SpecReplies \X SpecWriteFailures
    ELSE {<<<<"Loco1", "Loco2">>, [l \in LocoIds |-> Reply(TRUE, TRUE, 1, 0)], 0>>}

--------------------------------------------------------------------------
(* Spec: the controller from construction, every handler one step          *)

Init ==
    /\ stream = [l \in LocoIds |-> None]
    /\ location = [l \in LocoIds |-> None]
    /\ intent = [l \in LocoIds |-> None]
    /\ actuator_stream = None
    /\ oracle_enabled = FALSE
    /\ last_segment_id = [l \in LocoIds |-> None]
    /\ tick = NoTick
    /\ wire = <<>>
    /\ http = None
    /\ call = None
    /\ ret = None
    /\ conn = None
    /\ pc = None
    /\ holder = None
    /\ log = None
    /\ clients = None

Next ==
    \/ \E in \in SpecConnects : handle_loco_connection(in)
    \/ handle_actuators_connection
    \/ \E in \in SpecSensorFrames : serve_sensors(in)
    \/ \E l \in LocoIds, i \in SpecIntents : loco_intent(l, i)
    \/ \E m \in {"Off", "Auto"} : oracle_mode(m)
    \/ \E l \in LocoIds, ok \in BOOLEAN :
            http_control_loco(l, "Forward", SpeedSlow, ok)
    \/ \E ok \in BOOLEAN : http_drive_switch_rails("SwitchRails1", "Diverted", ok)
    \/ \E l \in LocoIds, r \in HealthyReplies : http_loco_status(l, r)
    \/ \E in \in SpecTickInputs : process(in[1], in[2], in[3])

Spec == Init /\ [][Next]_vars

--------------------------------------------------------------------------
(* SpecTick: the Oracle ticking over a registry that holds any connected   *)
(* locos, locations and intents, with healthy devices                      *)

InitTick ==
    /\ stream \in [LocoIds -> {None, Some(Accepted)}]
    /\ location \in [LocoIds -> {None} \cup {Some(s) : s \in SensorIds}]
    /\ intent \in [LocoIds -> {None} \cup {Some(i) : i \in TickIntents}]
    /\ \A l \in LocoIds : stream[l] = None => location[l] = None /\ intent[l] = None
    /\ actuator_stream = Some(Accepted)
    /\ oracle_enabled = TRUE
    /\ last_segment_id = [l \in LocoIds |-> None]
    /\ tick = NoTick
    /\ wire = <<>>
    /\ http = None
    /\ call = None
    /\ ret = None
    /\ conn = None
    /\ pc = None
    /\ holder = None
    /\ log = None
    /\ clients = None

NextTick ==
    \E order \in LocoOrders, reply \in [LocoIds -> HealthyReplies] :
        process(order, reply, 0)

SpecTick == InitTick /\ [][NextTick]_vars

--------------------------------------------------------------------------
(* SpecFault: the Oracle ticking over a registry of locos near the         *)
(* turnouts of Station1, with devices that fail and command writes that    *)
(* fail                                                                    *)

\* the intents of SpecFault
FaultIntents == {Drive("Forward", "Track1"), Drive("Backward", "Station1")}

\* the sensors at which the registries of SpecFault hold locos
FaultSensors == {s \in SensorIds : SensorIdToU8(s) <= MaxFaultSensor}

InitFault ==
    /\ stream \in [LocoIds -> {None, Some(Accepted)}]
    /\ location \in [LocoIds -> {None} \cup {Some(s) : s \in FaultSensors}]
    /\ intent \in [LocoIds -> {None} \cup {Some(i) : i \in FaultIntents}]
    /\ \A l \in LocoIds : stream[l] = None => location[l] = None /\ intent[l] = None
    /\ actuator_stream = Some(Accepted)
    /\ oracle_enabled = TRUE
    /\ last_segment_id = [l \in LocoIds |-> None]
    /\ tick = NoTick
    /\ wire = <<>>
    /\ http = None
    /\ call = None
    /\ ret = None
    /\ conn = None
    /\ pc = None
    /\ holder = None
    /\ log = None
    /\ clients = None

NextFault ==
    \E order \in LocoOrders, reply \in SpecReplies, wfail \in 0..MaxWriteFailure :
        process(order, reply, wfail)

SpecFault == InitFault /\ [][NextFault]_vars

--------------------------------------------------------------------------
(* SpecStarve: the Oracle ticking for ever over a registry of two          *)
(* connected locos around the turnout of Station1, with healthy devices    *)

\* the sensors at which the registries of SpecStarve hold the locos:
\* Checkpoint1, Checkpoint2 and Station1
StarveSensors == {"RfidReader1", "RfidReader2", "RfidReader7"}

InitStarve ==
    /\ stream = [l \in LocoIds |-> Some(Accepted)]
    /\ location \in [LocoIds -> {Some(s) : s \in StarveSensors}]
    /\ intent \in [LocoIds -> {Some(i) : i \in FaultIntents}]
    /\ actuator_stream = Some(Accepted)
    /\ oracle_enabled = TRUE
    /\ last_segment_id = [l \in LocoIds |-> None]
    /\ tick = NoTick
    /\ wire = <<>>
    /\ http = None
    /\ call = None
    /\ ret = None
    /\ conn = None
    /\ pc = None
    /\ holder = None
    /\ log = None
    /\ clients = None

NextStarve ==
    \E order \in LocoOrders, reply \in [LocoIds -> HealthyReplies] :
        process(order, reply, 0)

\* the first call of process by backend_oracle
FirstTick == tick.stage = "NotCalled" /\ NextStarve

\* backend_oracle calls process every 10 ms: the first call is made
SpecStarve == InitStarve /\ [][NextStarve]_vars /\ WF_vars(FirstTick)

--------------------------------------------------------------------------
(* SpecStall: the Oracle ticking for ever while Loco1 is connected,        *)
(* located, holds an intent and answers, whatever Loco2 does               *)

\* a session that has failed: the write of the request or the read of the
\* reply returns a transport error
TransportFailures == {Reply(FALSE, TRUE, 1, 0), Reply(TRUE, FALSE, 1, 0)}

InitStall ==
    /\ stream \in {s \in [LocoIds -> {None, Some(Accepted)}] : s["Loco1"] # None}
    /\ location \in {loc \in [LocoIds -> {None} \cup {Some(s) : s \in StarveSensors}] :
                        loc["Loco1"] # None}
    /\ intent \in {int \in [LocoIds -> {None} \cup {Some(i) : i \in FaultIntents}] :
                        int["Loco1"] # None}
    /\ stream["Loco2"] = None => location["Loco2"] = None /\ intent["Loco2"] = None
    /\ actuator_stream = Some(Accepted)
    /\ oracle_enabled = TRUE
    /\ last_segment_id = [l \in LocoIds |-> None]
    /\ tick = NoTick
    /\ wire = <<>>
    /\ http = None
    /\ call = None
    /\ ret = None
    /\ conn = None
    /\ pc = None
    /\ holder = None
    /\ log = None
    /\ clients = None

\* a tick in which the device of Loco1 answers and every command write
\* succeeds; the device of Loco2, if it has a session, answers or fails
NextStall ==
    \E order \in LocoOrders, r1 \in HealthyReplies,
       r2 \in IF stream["Loco2"] = None THEN {Reply(TRUE, TRUE, 1, 0)}
              ELSE HealthyReplies \cup TransportFailures :
        process(order, [l \in LocoIds |-> IF l = "Loco1" THEN r1 ELSE r2], 0)

\* backend_oracle calls process every 10 ms for ever
SpecStall == InitStall /\ [][NextStall]_vars /\ WF_vars(NextStall)

--------------------------------------------------------------------------
(* SpecMode: the Oracle thread, an HTTP worker serving a manual request    *)
(* and an HTTP worker serving POST /oracle_mode, statement by statement:   *)
(* pc.oracle is "enabled" between the read of oracle_enabled at the top of *)
(* Oracle::process and the rest of the tick, pc.http holds the manual      *)
(* request between the handler's read of oracle_enabled and its call of    *)
(* the backend                                                             *)

\* the manual requests an operator posts
ManualRequests ==
    {[handler |-> "control_loco", form |-> <<l, "Forward", SpeedSlow>>] : l \in LocoIds}
    \cup {[handler |-> "drive_switch_rails", form |-> <<"SwitchRails1", "Diverted">>]}

ModeIdle == [oracle |-> "idle", http |-> None]

InitMode ==
    /\ stream = [l \in LocoIds |-> Some(Accepted)]
    /\ location \in [LocoIds -> {None, Some("RfidReader1")}]
    /\ intent \in [LocoIds -> {None, Some(Drive("Forward", "Track1"))}]
    /\ actuator_stream = Some(Accepted)
    /\ oracle_enabled \in BOOLEAN
    /\ last_segment_id = [l \in LocoIds |-> None]
    /\ tick = NoTick
    /\ wire = <<>>
    /\ http = None
    /\ call = None
    /\ ret = None
    /\ conn = None
    /\ pc = ModeIdle
    /\ holder = None
    /\ log = None
    /\ clients = None

\* Oracle::process up to its early return: the read of oracle_enabled
process_check ==
    /\ pc.oracle = "idle"
    /\ pc' = IF oracle_is_enabled THEN [pc EXCEPT !.oracle = "enabled"] ELSE pc
    /\ tick' = IF oracle_is_enabled THEN NoTick
               ELSE Tick("Disabled", <<"Ok">>, <<>>, <<>>, <<>>, <<>>, <<>>)
    /\ wire' = <<>>
    /\ http' = None
    /\ conn' = None
    /\ UNCHANGED <<stream, location, intent, actuator_stream, oracle_enabled,
                   last_segment_id, call, ret, holder, log, clients>>

\* Oracle::process after the read: gathering, planning and the writes
process_rest(order, reply) ==
    /\ pc.oracle = "enabled"
    /\ process_enabled(order, reply, 0)
    /\ pc' = [pc EXCEPT !.oracle = "idle"]
    /\ UNCHANGED <<holder, log, clients>>

\* control_loco and drive_switch_rails of main.rs up to the early return:
\* the read of oracle_enabled
manual_check(req) ==
    /\ pc.http = None
    /\ pc' = IF oracle_is_enabled THEN pc ELSE [pc EXCEPT !.http = Some(req)]
    /\ http' = IF oracle_is_enabled THEN Response(req.handler, req.form, TRUE, 500)
               ELSE None
    /\ wire' = <<>>
    /\ tick' = NoTick
    /\ conn' = None
    /\ UNCHANGED <<stream, location, intent, actuator_stream, oracle_enabled,
                   last_segment_id, call, ret, holder, log, clients>>

\* control_loco and drive_switch_rails of main.rs after the read: the call
\* of Backend::control_loco or Backend::drive_actuator and the response
manual_write(write_ok) ==
    /\ pc.http # None
    /\ \E req \in {pc.http[1]} :
       \E r \in {IF req.handler = "control_loco"
                 THEN control_loco(req.form[1], req.form[2], req.form[3], write_ok)
                 ELSE drive_actuator(req.form[1], "SwitchRails",
                                     SwitchRailsStateToU8(req.form[2]), write_ok)} :
            /\ wire' = r.wire
            /\ http' = Response(req.handler, req.form, write_ok,
                                IF r.err # "Ok" THEN 500 ELSE 200)
    /\ pc' = [pc EXCEPT !.http = None]
    /\ tick' = NoTick
    /\ conn' = None
    /\ UNCHANGED <<stream, location, intent, actuator_stream, oracle_enabled,
                   last_segment_id, call, ret, holder, log, clients>>

NextMode ==
    \/ process_check
    \/ \E order \in LocoOrders, r \in HealthyReplies :
            process_rest(order, [l \in LocoIds |-> r])
    \/ \E req \in ManualRequests : manual_check(req)
    \/ \E ok \in BOOLEAN : manual_write(ok)
    \/ \E m \in {"Off", "Auto"} : oracle_mode(m)

SpecMode == InitMode /\ [][NextMode]_vars

--------------------------------------------------------------------------
(* SpecSensors: one sensor session delivering frames of several records    *)
(* to a registry in which Loco1 is connected and Loco2 is not               *)

\* the bytes of a record: sensor ids 1, 2 and an unknown one, loco ids 1, 2
\* and an unknown one
SensorRecords == {1, 2, 9} \X {1, 2, 3}

\* the payloads of at most n records
RECURSIVE Payloads(_)
Payloads(n) ==
    IF n = 0 THEN {<<>>}
    ELSE Payloads(n - 1)
            \cup {Append(p, r) : p \in {q \in Payloads(n - 1) : Len(q) = n - 1},
                                 r \in SensorRecords}

\* the frames of the session: SensorsStatus frames, a frame of another
\* operation, one of a bad magic number and one whose header cannot be read
SessionFrames ==
    {Incoming(TRUE, BACKEND_PROTOCOL_MAGIC_NUMBER, 4, p) : p \in Payloads(MaxRecords)}
        \cup {Incoming(TRUE, BACKEND_PROTOCOL_MAGIC_NUMBER, 3, <<>>),
              Incoming(TRUE, BACKEND_PROTOCOL_MAGIC_NUMBER, 7, <<>>),
              Incoming(TRUE, 0, 4, <<>>),
              Incoming(FALSE, 0, 0, <<>>)}

InitSensors ==
    /\ stream = [l \in LocoIds |-> IF l = "Loco1" THEN Some(Accepted) ELSE None]
    /\ location = [l \in LocoIds |-> None]
    /\ intent = [l \in LocoIds |->
                    IF l = "Loco1" THEN Some(Drive("Forward", "Track1")) ELSE None]
    /\ actuator_stream = Some(Accepted)
    /\ oracle_enabled = TRUE
    /\ last_segment_id = [l \in LocoIds |-> None]
    /\ tick = NoTick
    /\ wire = <<>>
    /\ http = None
    /\ call = None
    /\ ret = None
    /\ conn = None
    /\ pc = None
    /\ holder = None
    /\ log = None
    /\ clients = None

\* the loop of Backend::serve_sensors reads the frame `in`: call is the
\* frame and ret what the iteration returned with; the loop is left on the
\* first error
serve_sensors_session(in) ==
    /\ ret = None \/ ret = Some(<<"Ok">>)
    /\ \E done \in {serve_sensors_frame(in)} :
        /\ location' = done.location
        /\ call' = Some(in)
        /\ ret' = Some(done.err)
    /\ UNCHANGED <<stream, intent, actuator_stream, oracle_enabled, last_segment_id,
                   tick, wire, http, conn, threads>>

NextSensors == \E in \in SessionFrames : serve_sensors_session(in)

SpecSensors == InitSensors /\ [][NextSensors]_vars

--------------------------------------------------------------------------
(* SpecNet: calls of the functions of the rail network on any arguments    *)

InitNet ==
    /\ stream = [l \in LocoIds |-> None]
    /\ location = [l \in LocoIds |-> None]
    /\ intent = [l \in LocoIds |-> None]
    /\ actuator_stream = None
    /\ oracle_enabled = FALSE
    /\ last_segment_id = [l \in LocoIds |-> None]
    /\ tick = NoTick
    /\ wire = <<>>
    /\ http = None
    /\ call \in {Some(<<a, b>>) : a \in CheckpointIds, b \in CheckpointIds}
                \cup {Some(<<a, b>>) : a \in SegmentIds, b \in SegmentIds}
                \cup {Some(<<"track_id_target", i, c, d, t>>) :
                        i \in 0..longest_path, c \in CheckpointIds,
                        d \in Directions, t \in TrackIds}
                \cup {Some(<<"checkpoint_id_target", i, c, d, t>>) :
                        i \in 0..longest_path, c \in CheckpointIds,
                        d \in Directions, t \in CheckpointIds}
    /\ ret = None
    /\ conn = None
    /\ pc = None
    /\ holder = None
    /\ log = None
    /\ clients = None

\* (call[1][1], call[1][2]).try_into()
try_into_segment_id ==
    /\ call # None
    /\ call[1][1] \in CheckpointIds
    /\ ret = None
    /\ ret' = Some(TryIntoSegmentId(call[1][1], call[1][2]))
    /\ UNCHANGED <<stream, location, intent, actuator_stream, oracle_enabled,
                   last_segment_id, tick, wire, http, call, conn, threads>>

\* the conflicts of the higher priority segments only
segment_conflicts_of_main_track(segment_id) ==
    IF segments[segment_id].priority = Priority0
    THEN segments[segment_id].conflicts
    ELSE <<>>

\* rail_network.segment(segment_id).conflicts()
segment_conflicts(segment_id) == segments[segment_id].conflicts

\* rail_network.segment(segment_id).switch_rails()
segment_switch_rails(segment_id) == segments[segment_id].switch_rails

\* the conflicts and the switch requirements of the two segments of the call
segment_pair ==
    /\ call # None
    /\ call[1][1] \in SegmentIds
    /\ ret = None
    /\ ret' = Some([conflicts |-> <<segment_conflicts(call[1][1]),
                                    segment_conflicts(call[1][2])>>,
                    switch_rails |-> <<segment_switch_rails(call[1][1]),
                                       segment_switch_rails(call[1][2])>>])
    /\ UNCHANGED <<stream, location, intent, actuator_stream, oracle_enabled,
                   last_segment_id, tick, wire, http, call, conn, threads>>

\* rail_network.next_checkpoint_id_for_track_id_target or
\* rail_network.next_checkpoint_id_for_checkpoint_id_target on the
\* arguments of the call
next_checkpoint_id ==
    /\ call # None
    /\ call[1][1] \in {"track_id_target", "checkpoint_id_target"}
    /\ ret = None
    /\ ret' = Some(IF call[1][1] = "track_id_target"
                   THEN next_checkpoint_id_for_track_id_target(
                            call[1][2], call[1][3], call[1][4], call[1][5])
                   ELSE next_checkpoint_id_for_checkpoint_id_target(
                            call[1][2], call[1][3], call[1][4], call[1][5]))
    /\ UNCHANGED <<stream, location, intent, actuator_stream, oracle_enabled,
                   last_segment_id, tick, wire, http, call, conn, threads>>

NextNet == try_into_segment_id \/ segment_pair \/ next_checkpoint_id

SpecNet == InitNet /\ [][NextNet]_vars

--------------------------------------------------------------------------
(* SpecWire: calls of the conversions of the wire protocol: a byte that is *)
(* decoded and, if accepted, encoded again; a value that is encoded and    *)
(* decoded again; a header whose operation is retrieved                    *)

\* the magic numbers of the headers of SpecWire
WireMagics == {0, BACKEND_PROTOCOL_MAGIC_NUMBER - 1, BACKEND_PROTOCOL_MAGIC_NUMBER,
               BACKEND_PROTOCOL_MAGIC_NUMBER + 1, 255}

WireCalls ==
    {[of |-> "byte", type |-> t, arg |-> b] : t \in WireTypes, b \in U8}
        \cup UNION {{[of |-> "item", type |-> t, arg |-> v] : v \in WireValues(t)} :
                        t \in WireTypes}
        \cup {[of |-> "header", type |-> "Header", arg |-> Incoming(TRUE, m, o, <<>>)] :
                    m \in WireMagics, o \in U8}
        \cup {[of |-> "header", type |-> "Header", arg |-> Incoming(FALSE, 0, 0, <<>>)]}

InitWire ==
    /\ stream = [l \in LocoIds |-> None]
    /\ location = [l \in LocoIds |-> None]
    /\ intent = [l \in LocoIds |-> None]
    /\ actuator_stream = None
    /\ oracle_enabled = FALSE
    /\ last_segment_id = [l \in LocoIds |-> None]
    /\ tick = NoTick
    /\ wire = <<>>
    /\ http = None
    /\ call \in {Some(c) : c \in WireCalls}
    /\ ret = None
    /\ conn = None
    /\ pc = None
    /\ holder = None
    /\ log = None
    /\ clients = None

\* T::try_from on the byte of the call, or on the byte its item was encoded to
try_from ==
    /\ \/ call[1].of = "byte" /\ Len(ret) = 0
       \/ call[1].of = "item" /\ Len(ret) = 1
    /\ ret' = Append(ret, TryFromU8(call[1].type,
                                    IF call[1].of = "byte" THEN call[1].arg ELSE ret[1]))
    /\ UNCHANGED <<stream, location, intent, actuator_stream, oracle_enabled,
                   last_segment_id, tick, wire, http, call, conn, threads>>

\* u8::from on the item of the call, or on the item its byte was decoded to
into_u8 ==
    /\ \/ call[1].of = "item" /\ Len(ret) = 0
       \/ call[1].of = "byte" /\ Len(ret) = 1 /\ ret[1][1] = "Ok"
    /\ ret' = Append(ret, IntoU8(call[1].type,
                                 IF call[1].of = "item" THEN call[1].arg ELSE ret[1][2]))
    /\ UNCHANGED <<stream, location, intent, actuator_stream, oracle_enabled,
                   last_segment_id, tick, wire, http, call, conn, threads>>

\* Backend::retrieve_header_op on the header of the call
header_op ==
    /\ call[1].of = "header" /\ Len(ret) = 0
    /\ ret' = <<retrieve_header_op(call[1].arg)>>
    /\ UNCHANGED <<stream, location, intent, actuator_stream, oracle_enabled,
                   last_segment_id, tick, wire, http, call, conn, threads>>

NextWire == try_from \/ into_u8 \/ header_op

SpecWire == InitWire /\ [][NextWire]_vars

--------------------------------------------------------------------------
(* SpecThreads: the threads of main() on the registry, statement by        *)
(* statement: the Oracle thread and an HTTP worker calling the Backend,    *)
(* the thread of backend_locos accepting connections, the loco devices     *)
(* answering status requests and the clients of the locos port             *)

\* the threads that call the operations of the Backend
Callers == {"Oracle", "Http"}
\* the thread main() spawns on backend_locos
Locos == "Locos"
Threads == Callers \cup {Locos}

\* the clients that connect to the locos port
Clients == {"ClientA", "ClientB"}

\* what a client sends first: a Connect for Loco1, or something else
FirstFrames == {"Loco1", "Garbage"}

\* Backend.loco_info holds one Mutex<LocoInfo> per loco, Backend.actuator_info
\* one Mutex<ActuatorInfo>
Mutexes == LocoIds \cup {"Actuators"}

\* one Mutex for the whole registry
mutex_of_registry(on) == "Loco1"

\* the Mutex an operation on a loco or on the actuators locks
mutex_of(on) == on

\* the calls of each thread: Oracle::process calls loco_status,
\* drive_actuator and control_loco, the HTTP handlers these and
\* set_loco_intent
ThreadCalls(t) ==
    {<<op, l>> : op \in {"loco_status", "control_loco"}, l \in LocoIds}
        \cup {<<"drive_actuator", "Actuators">>}
        \cup (IF t = "Http" THEN {<<"set_loco_intent", l>> : l \in LocoIds} ELSE {})

\* a thread between two calls, after so many
Idle(calls) == [op |-> "idle", on |-> "none", at |-> "none", calls |-> calls]

\* a MutexGuard that is a temporary of the statement that writes
guard_dropped_after_write(op) == "write"

\* the statement of an operation at whose end its MutexGuard is dropped: the
\* guard of loco_status lives to the end of the block that writes and reads
guard_dropped_after(op) ==
    CASE op = "loco_status" -> "read"
      [] op \in {"control_loco", "drive_actuator"} -> "write"
      [] op = "set_loco_intent" -> "replace"
      [] op = "handle_loco_connection" -> "install"

\* the statement that follows the lock() of an operation
after_lock(op) ==
    CASE op \in {"loco_status", "control_loco", "drive_actuator"} -> "write"
      [] op = "set_loco_intent" -> "replace"
      [] op = "handle_loco_connection" -> "install"

\* an event on a transport: who, and what
Event(by, ev) == [by |-> by, ev |-> ev]

\* how many events of a kind a transport has seen
Count(l, ev) == Cardinality({i \in 1..Len(log[l]) : log[l][i].ev = ev})

\* the mutexes after thread t ends statement at of operation op on m
Release(t, op, at, m) ==
    IF guard_dropped_after(op) = at /\ holder[m] = Some(t)
    THEN [holder EXCEPT ![m] = None]
    ELSE holder

InitThreads ==
    /\ stream = [l \in LocoIds |-> Some(Accepted)]
    /\ location = [l \in LocoIds |-> None]
    /\ intent = [l \in LocoIds |-> None]
    /\ actuator_stream = Some(Accepted)
    /\ oracle_enabled = FALSE
    /\ last_segment_id = [l \in LocoIds |-> None]
    /\ tick = NoTick
    /\ wire = <<>>
    /\ http = None
    /\ call = None
    /\ ret = None
    /\ conn = None
    /\ pc = [t \in Threads |-> Idle(0)]
    /\ holder = [m \in Mutexes |-> None]
    /\ log = [m \in Mutexes \cup {"error!"} |-> <<>>]
    /\ clients = [c \in Clients |-> [at |-> "away", sent |-> "nothing"]]

\* a caller enters an operation of the Backend and reaches its lock()
begin(t, op, on) ==
    /\ pc[t].op = "idle"
    /\ pc["Oracle"].calls + pc["Http"].calls < MaxCalls
    /\ pc' = [pc EXCEPT ![t] = [op |-> op, on |-> on, at |-> "lock",
                                calls |-> pc[t].calls + 1]]
    /\ UNCHANGED <<stream, location, intent, actuator_stream, oracle_enabled,
                   last_segment_id, tick, wire, http, call, ret, conn,
                   holder, log, clients>>

\* Mutex::lock returns: the mutex is free; without a stream the operation
\* returns LocoNotConnected or ActuatorsNotConnected and the guard is dropped
lock(t) ==
    /\ pc[t].at = "lock"
    /\ holder[mutex_of(pc[t].on)] = None
    /\ LET connected == \/ pc[t].op \in {"set_loco_intent", "handle_loco_connection"}
                        \/ pc[t].on \in LocoIds /\ stream[pc[t].on] # None
                        \/ pc[t].on = "Actuators" /\ actuator_stream # None
       IN  IF connected
           THEN /\ holder' = [holder EXCEPT ![mutex_of(pc[t].on)] = Some(t)]
                /\ pc' = [pc EXCEPT ![t].at = after_lock(pc[t].op)]
           ELSE /\ holder' = holder
                /\ pc' = [pc EXCEPT ![t] = Idle(pc[t].calls)]
    /\ UNCHANGED <<stream, location, intent, actuator_stream, oracle_enabled,
                   last_segment_id, tick, wire, http, call, ret, conn,
                   log, clients>>

\* write_all of the message of the operation on the stream
write(t) ==
    /\ pc[t].at = "write"
    /\ log' = [log EXCEPT ![pc[t].on] = Append(@, Event(t, pc[t].op))]
    /\ holder' = Release(t, pc[t].op, "write", mutex_of(pc[t].on))
    /\ pc' = [pc EXCEPT ![t] = IF pc[t].op = "loco_status"
                               THEN [pc[t] EXCEPT !.at = "read"]
                               ELSE Idle(pc[t].calls)]
    /\ UNCHANGED <<stream, location, intent, actuator_stream, oracle_enabled,
                   last_segment_id, tick, wire, http, call, ret, conn, clients>>

\* decode_from_std_read of the LocoStatusResponse returns: the stream holds
\* a reply that has not been read
read(t) ==
    /\ pc[t].at = "read"
    /\ Count(pc[t].on, "reply") > Count(pc[t].on, "read")
    /\ log' = [log EXCEPT ![pc[t].on] = Append(@, Event(t, "read"))]
    /\ holder' = Release(t, pc[t].op, "read", mutex_of(pc[t].on))
    /\ pc' = [pc EXCEPT ![t] = Idle(pc[t].calls)]
    /\ UNCHANGED <<stream, location, intent, actuator_stream, oracle_enabled,
                   last_segment_id, tick, wire, http, call, ret, conn, clients>>

\* Backend::set_loco_intent: intent.replace(intent)
replace(t) ==
    /\ pc[t].at = "replace"
    /\ intent' = [intent EXCEPT ![pc[t].on] = Some(Drive("Forward", "Track1"))]
    /\ holder' = Release(t, pc[t].op, "replace", mutex_of(pc[t].on))
    /\ pc' = [pc EXCEPT ![t] = Idle(pc[t].calls)]
    /\ UNCHANGED <<stream, location, actuator_stream, oracle_enabled,
                   last_segment_id, tick, wire, http, call, ret, conn, log, clients>>

\* the device of a loco answers a status request it has not answered
device_reply(l) ==
    /\ Count(l, "loco_status") > Count(l, "reply")
    /\ log' = [log EXCEPT ![l] = Append(@, Event("Device", "reply"))]
    /\ UNCHANGED <<stream, location, intent, actuator_stream, oracle_enabled,
                   last_segment_id, tick, wire, http, call, ret, conn,
                   pc, holder, clients>>

\* a client connects to the locos port: the connection waits to be accepted
connect(c) ==
    /\ clients[c].at = "away"
    /\ clients' = [clients EXCEPT ![c].at = "queued"]
    /\ UNCHANGED <<stream, location, intent, actuator_stream, oracle_enabled,
                   last_segment_id, tick, wire, http, call, ret, conn,
                   pc, holder, log>>

\* a connected client sends its first frame
send(c, frame) ==
    /\ clients[c].at \in {"queued", "accepted"}
    /\ clients[c].sent = "nothing"
    /\ clients' = [clients EXCEPT ![c].sent = frame]
    /\ UNCHANGED <<stream, location, intent, actuator_stream, oracle_enabled,
                   last_segment_id, tick, wire, http, call, ret, conn,
                   pc, holder, log>>

\* backend_locos: listener.accept() returns a connection, and the loop calls
\* backend.handle_loco_connection(stream) on its own thread
accept(c) ==
    /\ pc[Locos].op = "idle"
    /\ clients[c].at = "queued"
    /\ clients' = [clients EXCEPT ![c].at = "accepted"]
    /\ pc' = [pc EXCEPT ![Locos] = [op |-> "handle_loco_connection", on |-> c,
                                    at |-> "header", calls |-> 0]]
    /\ UNCHANGED <<stream, location, intent, actuator_stream, oracle_enabled,
                   last_segment_id, tick, wire, http, call, ret, conn,
                   holder, log>>

\* retrieve_header_op and the payload of handle_op_connect are read: the
\* client has sent its frame; an error is logged by the loop of backend_locos,
\* which goes back to accept
header ==
    /\ pc[Locos].at = "header"
    /\ clients[pc[Locos].on].sent # "nothing"
    /\ IF clients[pc[Locos].on].sent \in LocoIds
       THEN /\ pc' = [pc EXCEPT ![Locos].on = clients[pc[Locos].on].sent,
                                ![Locos].at = "lock"]
            /\ clients' = [clients EXCEPT ![pc[Locos].on].at = "handled"]
            /\ log' = log
       ELSE /\ pc' = [pc EXCEPT ![Locos] = Idle(0)]
            /\ clients' = [clients EXCEPT ![pc[Locos].on].at = "refused"]
            /\ log' = [log EXCEPT !["error!"] = Append(@, Event(Locos, pc[Locos].on))]
    /\ UNCHANGED <<stream, location, intent, actuator_stream, oracle_enabled,
                   last_segment_id, tick, wire, http, call, ret, conn, holder>>

\* handle_op_connect: the stream of the loco is replaced
install ==
    /\ pc[Locos].at = "install"
    /\ stream' = install_stream(pc[Locos].on)
    /\ log' = [log EXCEPT ![pc[Locos].on] = Append(@, Event(Locos, "install"))]
    /\ holder' = Release(Locos, pc[Locos].op, "install", mutex_of(pc[Locos].on))
    /\ pc' = [pc EXCEPT ![Locos] = Idle(0)]
    /\ UNCHANGED <<location, intent, actuator_stream, oracle_enabled,
                   last_segment_id, tick, wire, http, call, ret, conn, clients>>

\* the next statement of the operation a thread is in
step(t) == lock(t) \/ write(t) \/ read(t) \/ replace(t)

NextThreads ==
    \/ \E t \in Callers : \E c \in ThreadCalls(t) : begin(t, c[1], c[2])
    \/ \E t \in Threads : lock(t)
    \/ \E t \in Callers : write(t)
    \/ \E t \in Callers : read(t)
    \/ \E t \in Callers : replace(t)
    \/ \E l \in LocoIds : device_reply(l)
    \/ \E c \in Clients : connect(c)
    \/ \E c \in Clients, f \in FirstFrames : send(c, f)
    \/ \E c \in Clients : accept(c)
    \/ header
    \/ install

SpecThreads == InitThreads /\ [][NextThreads]_vars

--------------------------------------------------------------------------
(* SpecIngest: the sensor session beside the Oracle's status round trips,  *)
(* statement by statement: clients holds the SensorsStatus frames the      *)
(* session has delivered and the thread of backend_sensors has not yet     *)
(* worked through, each the sequence of its records                        *)

\* the records of a frame: sensors 1 and 2, locos 1 and 2
IngestRecords == {1, 2} \X {1, 2}

\* the frames of a session: one record, or as many as MaxRecords
IngestFrames ==
    {<<r>> : r \in IngestRecords} \cup [1..MaxRecords -> IngestRecords]

\* the sessions: one frame, or two
IngestSessions ==
    {<<f>> : f \in IngestFrames} \cup (IngestFrames \X IngestFrames)

InitIngest ==
    /\ stream = [l \in LocoIds |-> Some(Accepted)]
    /\ location = [l \in LocoIds |-> None]
    /\ intent = [l \in LocoIds |-> None]
    /\ actuator_stream = Some(Accepted)
    /\ oracle_enabled = TRUE
    /\ last_segment_id = [l \in LocoIds |-> None]
    /\ tick = NoTick
    /\ wire = <<>>
    /\ http = None
    /\ call = None
    /\ ret = None
    /\ conn = None
    /\ pc = [t \in Callers |-> Idle(0)]
    /\ holder = [m \in Mutexes |-> None]
    /\ log = [m \in Mutexes \cup {"error!"} |-> <<>>]
    /\ clients \in IngestSessions

\* the session without the first record of its first frame
rest_of_session(session) ==
    IF Len(session[1]) = 1 THEN Tail(session)
    ELSE <<Tail(session[1])>> \o Tail(session)

\* one pass of the loop of handle_op_sensors_status: the record is decoded,
\* the Mutex of its loco is locked, the location stored and the guard, a
\* temporary of the statement, dropped
ingest_record ==
    /\ clients # <<>>
    /\ \E sensor_status \in {clients[1][1]} :
       \E loco_id \in {LocoIdTryFrom(sensor_status[2])[1]} :
            /\ holder[mutex_of(loco_id)] = None
            /\ location' = [location EXCEPT
                              ![loco_id] = SensorIdTryFrom(sensor_status[1])]
    /\ clients' = rest_of_session(clients)
    /\ UNCHANGED <<stream, intent, actuator_stream, oracle_enabled,
                   last_segment_id, tick, wire, http, call, ret, conn,
                   pc, holder, log>>

\* the Oracle's statements: its status round trips
oracle_step ==
    \/ \E l \in LocoIds : begin("Oracle", "loco_status", l)
    \/ lock("Oracle")
    \/ write("Oracle")
    \/ read("Oracle")

NextIngest ==
    \/ ingest_record
    \/ oracle_step
    \/ \E l \in LocoIds : device_reply(l)

\* the thread of backend_sensors and the Oracle thread run whenever they
\* can; nothing makes a device answer
SpecIngest ==
    InitIngest /\ [][NextIngest]_vars /\ WF_vars(ingest_record) /\ WF_vars(oracle_step)

--------------------------------------------------------------------------
(* Vocabulary of the properties                                            *)

\* the last step was a tick that read the status of the locos
TickGathered == tick.stage \in {"Plan", "Actuators", "Locos", "Done"}

\* the last step was a tick in which determine_controls ran to completion
TickDecided == tick.stage \in {"Actuators", "Locos", "Done"}

\* the tick's loco command list holds a command of that speed for loco l
Commanded(l, speed) ==
    \E i \in 1..Len(tick.loco_controls) :
        tick.loco_controls[i][1] = l /\ tick.loco_controls[i][3] = speed

\* the positions of loco l in the sorted active segments of the tick
EntriesOf(l) ==
    {i \in 1..Len(tick.sorted_active_segments) : tick.sorted_active_segments[i].loco_id = l}

\* the positions of the sorted active segments that were granted
GrantedEntries ==
    {i \in 1..Len(tick.sorted_active_segments) :
        /\ tick.sorted_active_segments[i].id # None
        /\ Commanded(tick.sorted_active_segments[i].loco_id, SpeedNormal)}

\* the actuator command a switch requirement stands for
Requirement(sr) == <<sr.actuator_id, "SwitchRails", IF sr.state = "Direct" THEN 1 ELSE 2>>

\* the actuator commands of the switch requirements of segment sid, in order
Requirements(sid) ==
    [k \in 1..Len(segments[sid].switch_rails) |-> Requirement(segments[sid].switch_rails[k])]

\* the tick saw the stopped loco of id l at checkpoint cp
StoppedAt(cp) ==
    \E k \in 1..Len(tick.active_locos) :
        /\ tick.active_locos[k].location = Some(cp)
        /\ tick.active_locos[k].speed = SpeedStop

\* the tick saw loco l at checkpoint cp with intent int
Saw(l, cp, int) ==
    \E k \in 1..Len(tick.active_locos) :
        /\ tick.active_locos[k].id = l
        /\ tick.active_locos[k].location = Some(cp)
        /\ tick.active_locos[k].intent = Some(int)

--------------------------------------------------------------------------
(* Properties                                                              *)

\* C1: in every tick in which determine_controls runs to completion, any two
\* locos that are both commanded Speed::Normal were granted segments S1 and
\* S2 with S1 # S2, S2 not in the conflicts of S1 and S1 not in the
\* conflicts of S2.
C1OracleSafety ==
    TickDecided =>
        \A l1 \in LocoIds, l2 \in LocoIds :
            (l1 # l2 /\ Commanded(l1, SpeedNormal) /\ Commanded(l2, SpeedNormal)) =>
                /\ EntriesOf(l1) # {}
                /\ EntriesOf(l2) # {}
                /\ \A i \in EntriesOf(l1), j \in EntriesOf(l2) :
                    LET S1 == tick.sorted_active_segments[i].id
                        S2 == tick.sorted_active_segments[j].id
                    IN  /\ S1 # None
                        /\ S2 # None
                        /\ S1[1] # S2[1]
                        /\ ~Contains(segments[S1[1]].conflicts, S2[1])
                        /\ ~Contains(segments[S2[1]].conflicts, S1[1])

C1Witness ==
    /\ TickDecided
    /\ Commanded("Loco1", SpeedNormal)
    /\ Commanded("Loco2", SpeedNormal)

\* C2: in every tick that gathered the status of the locos, a loco seen with
\* intent Stop(dir, cp) at location cp gets exactly one command in the tick's
\* loco command list, (l, dir, Speed::Stop), which is the one ControlLoco
\* frame written to it; its active segment is null, and every actuator
\* command of the tick is a switch requirement of a segment granted to
\* another loco.
C2ArriveAndStop ==
    TickGathered =>
        \A k \in 1..Len(tick.active_locos) :
            LET a == tick.active_locos[k]
            IN  (/\ a.location # None
                 /\ a.intent # None
                 /\ a.intent[1].kind = "Stop"
                 /\ a.intent[1].target = a.location[1]) =>
                    /\ Cardinality({i \in 1..Len(tick.loco_controls) :
                                        tick.loco_controls[i][1] = a.id}) = 1
                    /\ Contains(tick.loco_controls,
                                <<a.id, a.intent[1].direction, SpeedStop>>)
                    /\ tick.stage = "Done"
                    /\ Cardinality({i \in 1..Len(wire) :
                                        wire[i].to = a.id /\ wire[i].bytes[2] = 2}) = 1
                    /\ Contains(wire, Written(a.id,
                            <<171, 2, 2, DirectionToU8(a.intent[1].direction), 0>>))
                    /\ EntriesOf(a.id) # {}
                    /\ \A i \in EntriesOf(a.id) : tick.sorted_active_segments[i].id = None
                    /\ \A c \in 1..Len(tick.actuator_controls) :
                        \E j \in GrantedEntries :
                            /\ tick.sorted_active_segments[j].loco_id # a.id
                            /\ Contains(Requirements(tick.sorted_active_segments[j].id[1]),
                                        tick.actuator_controls[c])

C2Witness ==
    /\ TickGathered
    /\ Saw("Loco1", "Station1", Stop("Forward", "Station1"))
    /\ Commanded("Loco1", SpeedStop)
    /\ Commanded("Loco2", SpeedNormal)
    /\ tick.actuator_controls # <<>>

\* C3: in every tick in which determine_controls runs to completion, the
\* actuator command list holds each switch requirement of each granted
\* segment exactly once, holds nothing else, and commands no actuator to
\* two different states.
C3ActuatorCommands ==
    TickDecided =>
        /\ \A j \in GrantedEntries :
            LET reqs == Requirements(tick.sorted_active_segments[j].id[1])
            IN  \A k \in 1..Len(reqs) :
                    Cardinality({c \in 1..Len(tick.actuator_controls) :
                                    tick.actuator_controls[c] = reqs[k]}) = 1
        /\ \A c \in 1..Len(tick.actuator_controls) :
            \E j \in GrantedEntries :
                Contains(Requirements(tick.sorted_active_segments[j].id[1]),
                         tick.actuator_controls[c])
        /\ \A c \in 1..Len(tick.actuator_controls), d \in 1..Len(tick.actuator_controls) :
            tick.actuator_controls[c][1] = tick.actuator_controls[d][1] =>
                tick.actuator_controls[c][3] = tick.actuator_controls[d][3]

C3Witness ==
    /\ TickDecided
    /\ Cardinality(GrantedEntries) = 2
    /\ Len(tick.actuator_controls) = 2
    /\ \E c \in 1..2 : tick.actuator_controls[c][3] = 2

\* loco l asks for segment sid in the tick: its active segment has that id
Requests(l, sid) ==
    \E i \in 1..Len(tick.active_segments) :
        /\ tick.active_segments[i].loco_id = l
        /\ tick.active_segments[i].id = Some(sid)

\* loco l comes before loco f in the sorted active segments of the tick
Precedes(l, f) ==
    \E i \in EntriesOf(l), j \in EntriesOf(f) : i < j

\* C4: when a tick finds two locos asking for the same segment S and exactly
\* one of them has last_segment_id = S at the start of the tick, that loco
\* is placed before the other in the sorted active segments, is commanded
\* Speed::Normal and the other Speed::Stop, whatever the order in which the
\* locos were enumerated.
C4LeaderPromotion ==
    [][TickDecided' =>
        \A l \in LocoIds, f \in LocoIds, S \in SegmentIds :
            (/\ l # f
             /\ Requests(l, S)'
             /\ Requests(f, S)'
             /\ last_segment_id[l] = Some(S)
             /\ last_segment_id[f] # Some(S)) =>
                /\ Precedes(l, f)'
                /\ ~Precedes(f, l)'
                /\ Commanded(l, SpeedNormal)'
                /\ Commanded(f, SpeedStop)'
                /\ ~Commanded(l, SpeedStop)'
                /\ ~Commanded(f, SpeedNormal)']_vars

\* a tick in which the loco enumerated second was moved in front of the
\* loco enumerated first, both asking for the same segment
C4Witness ==
    /\ TickDecided
    /\ Len(tick.active_segments) = 2
    /\ tick.active_segments[1].id # None
    /\ tick.active_segments[1].id = tick.active_segments[2].id
    /\ tick.sorted_active_segments[1].loco_id = tick.active_segments[2].loco_id
    /\ Commanded(tick.active_segments[2].loco_id, SpeedNormal)
    /\ Commanded(tick.active_segments[1].loco_id, SpeedStop)

\* C5: oracle_enabled is false at startup, and a tick that starts while
\* oracle_enabled is false writes no frame (no LocoStatus request, no
\* DriveActuator, no ControlLoco), computes no command and leaves
\* last_segment_id unchanged.
C5DisabledTick ==
    /\ oracle_enabled = FALSE
    /\ [][(tick'.stage # "NotCalled" /\ ~oracle_enabled) =>
            /\ wire' = <<>>
            /\ tick'.stage = "Disabled"
            /\ tick'.actuator_controls = <<>>
            /\ tick'.loco_controls = <<>>
            /\ last_segment_id' = last_segment_id
            /\ oracle_enabled' = oracle_enabled]_vars

\* a disabled tick over a registry in which an enabled tick would have
\* commanded Loco1, which it did before
C5Witness ==
    /\ tick.stage = "Disabled"
    /\ stream["Loco1"] # None
    /\ location["Loco1"] # None
    /\ intent["Loco1"] # None
    /\ actuator_stream # None
    /\ last_segment_id["Loco1"] # None

C7DisconnectedLocoSkipped ==
    tick.stage \notin {"NotCalled", "Disabled"} =>
        \A l \in LocoIds :
            stream[l] = None =>
                /\ tick.result # <<"LocoStatus", "LocoNotConnected">>
                /\ tick.result # <<"ControlLoco", "LocoNotConnected">>
                /\ \A i \in 1..Len(wire) : wire[i].to # l
                /\ \A i \in 1..Len(tick.active_locos) : tick.active_locos[i].id # l
                /\ EntriesOf(l) = {}
                /\ \A i \in 1..Len(tick.loco_controls) : tick.loco_controls[i][1] # l
                /\ \A m \in LocoIds :
                    stream[m] # None =>
                        \/ Contains(wire, Written(m, <<171, 3, 0>>))
                        \/ tick.result = <<"LocoStatus", "WriteTcpStream">>

\* a tick that returned Ok and commanded Loco2 while Loco1 had no session
C7Witness ==
    /\ tick.stage = "Done"
    /\ tick.result = <<"Ok">>
    /\ stream["Loco1"] = None
    /\ stream["Loco2"] # None
    /\ Commanded("Loco2", SpeedNormal)
    /\ Contains(wire, Written("Loco2", <<171, 2, 2, 1, 2>>))

\* the frames of the actuator commands cmds, in order
ActuatorFrames(cmds) ==
    [c \in 1..Len(cmds) |->
        Written("Actuators", <<171, 5, 3, ActuatorIdToU8(cmds[c][1]), 1, cmds[c][3]>>)]

\* C8: in a tick with exactly one connected loco l, seen at a location with
\* intent Drive(dir, t), the tick computes exactly the switch requirements
\* of the segment from the location to the next checkpoint of the path
\* search, then the single loco command (l, dir, Speed::Normal), and writes
\* them in that order after the status request. For Loco1 at Checkpoint1
\* with Drive(Forward, Track1): SwitchRails2 Direct, then (Loco1, Forward,
\* Normal).
C8SingleLocoDrive ==
    /\ \A l \in LocoIds :
        (/\ TickGathered
         /\ \A m \in LocoIds : stream[m] # None <=> m = l
         /\ Len(tick.active_locos) = 1
         /\ tick.active_locos[1].location # None
         /\ tick.active_locos[1].intent # None
         /\ tick.active_locos[1].intent[1].kind = "Drive") =>
            LET a == tick.active_locos[1]
                dir == a.intent[1].direction
                next == next_checkpoint_id_for_track_id_target(
                            0, a.location[1], dir, a.intent[1].target)
                sid == TryIntoSegmentId(a.location[1], next[1])
            IN  /\ a.id = l
                /\ next # None
                /\ sid # None
                /\ tick.stage = "Done"
                /\ tick.actuator_controls = Requirements(sid[1])
                /\ tick.loco_controls = <<<<l, dir, SpeedNormal>>>>
                /\ wire = <<Written(l, <<171, 3, 0>>)>>
                            \o ActuatorFrames(Requirements(sid[1]))
                            \o <<Written(l, <<171, 2, 2, DirectionToU8(dir), 2>>)>>
    /\ (/\ TickGathered
        /\ stream["Loco2"] = None
        /\ Saw("Loco1", "Checkpoint1", Drive("Forward", "Track1"))) =>
            /\ tick.actuator_controls = <<<<"SwitchRails2", "SwitchRails", 1>>>>
            /\ tick.loco_controls = <<<<"Loco1", "Forward", SpeedNormal>>>>
            /\ wire = <<Written("Loco1", <<171, 3, 0>>),
                        Written("Actuators", <<171, 5, 3, 2, 1, 1>>),
                        Written("Loco1", <<171, 2, 2, 1, 2>>)>>

C8Witness ==
    /\ tick.stage = "Done"
    /\ stream["Loco2"] = None
    /\ Saw("Loco1", "Checkpoint1", Drive("Forward", "Track1"))
    /\ tick.loco_controls = <<<<"Loco1", "Forward", SpeedNormal>>>>

\* the statement of C9 as written: in a tick that saw Loco1 at Checkpoint2
\* with Drive(Forward, Station2) and planned a segment for it, the segment
\* goes to Checkpoint3 and its switch requirements include a Diverted state
C9DivertedOnChosenSegment ==
    (TickDecided /\ Saw("Loco1", "Checkpoint2", Drive("Forward", "Station2"))) =>
        \A i \in EntriesOf("Loco1") :
            tick.sorted_active_segments[i].id # None =>
                /\ tick.sorted_active_segments[i].id
                        = TryIntoSegmentId("Checkpoint2", "Checkpoint3")
                /\ \E k \in 1..Len(segments[tick.sorted_active_segments[i].id[1]].switch_rails) :
                        segments[tick.sorted_active_segments[i].id[1]].switch_rails[k].state
                            = "Diverted"

\* C9: in a tick that saw Loco1 at Checkpoint2 with Drive(Forward, Station2)
\* while no stopped loco is at Checkpoint3, the path search chooses
\* Checkpoint3 and the segment planned for Loco1 is Segment2, which has no
\* switch requirement; the Diverted state of the turnout toward Station2
\* (SwitchRails3) is required by Segment9, the segment planned once Loco1 is
\* seen at Checkpoint3 with the same intent while no stopped loco is at
\* Station2, and is commanded when that segment is granted.
C9RouteToStation2 ==
    /\ (/\ TickGathered
        /\ Saw("Loco1", "Checkpoint2", Drive("Forward", "Station2"))
        /\ ~StoppedAt("Checkpoint3")) =>
            /\ TickDecided
            /\ EntriesOf("Loco1") # {}
            /\ \A i \in EntriesOf("Loco1") :
                /\ tick.sorted_active_segments[i].id = Some("Segment2")
                /\ tick.sorted_active_segments[i].segment # None
                /\ tick.sorted_active_segments[i].segment[1].switch_rails = <<>>
    /\ (/\ TickGathered
        /\ Saw("Loco1", "Checkpoint3", Drive("Forward", "Station2"))
        /\ ~StoppedAt("Station2")) =>
            /\ TickDecided
            /\ EntriesOf("Loco1") # {}
            /\ \A i \in EntriesOf("Loco1") :
                /\ tick.sorted_active_segments[i].id = Some("Segment9")
                /\ tick.sorted_active_segments[i].segment # None
                /\ tick.sorted_active_segments[i].segment[1].switch_rails
                        = <<SwitchRails("SwitchRails3", "Diverted")>>
            /\ Commanded("Loco1", SpeedNormal) =>
                    Contains(tick.actuator_controls, <<"SwitchRails3", "SwitchRails", 2>>)

\* Loco1 at Checkpoint2 bound for Station2, granted Segment2 with no
\* actuator command in the tick
C9Witness ==
    /\ TickDecided
    /\ Saw("Loco1", "Checkpoint2", Drive("Forward", "Station2"))
    /\ \E i \in EntriesOf("Loco1") : tick.sorted_active_segments[i].id = Some("Segment2")
    /\ Commanded("Loco1", SpeedNormal)
    /\ tick.actuator_controls = <<>>

\* a is a neighbour of b or b of a in the neighbour lists of the checkpoints
Adjacent(a, b) ==
    \E d \in Directions :
        \/ Contains(checkpoints[a].checkpoint_ids[d], b)
        \/ Contains(checkpoints[b].checkpoint_ids[d], a)

\* C10: the lookup of the segment of a pair of checkpoints (a, b) returns
\* what the lookup of (b, a) returns (both fail or both give the same
\* SegmentId), it succeeds exactly when a and b are adjacent in the
\* neighbour lists of the network, and no other unordered pair of
\* checkpoints has the same SegmentId.
C10SegmentLookup ==
    (call # None /\ call[1][1] \in CheckpointIds /\ ret # None) =>
        LET a == call[1][1]
            b == call[1][2]
            r == ret[1]
        IN  /\ r = TryIntoSegmentId(b, a)
            /\ r # None <=> Adjacent(a, b)
            /\ r # None =>
                /\ r[1] \in SegmentIds
                /\ \A c \in CheckpointIds, d \in CheckpointIds :
                    {c, d} # {a, b} => TryIntoSegmentId(c, d) # r

\* the lookup of a pair written in the reverse of its traversal order
C10Witness ==
    /\ call = Some(<<"Station2", "Checkpoint5">>)
    /\ ret = Some(Some("Segment10"))

--------------------------------------------------------------------------
(* The wire protocol                                                       *)

\* the last call decoded the byte of the call and encoded the item again
Reencoded == call[1].of = "byte" /\ Len(ret) = 2

\* the last call encoded the item of the call
Encoded == call[1].of = "item" /\ Len(ret) >= 1

\* the bytes the decoder of Speed is specified to accept
SpeedWireRange == (0..3) \cup (SPEED_PWM_IDX_L..(SPEED_PWM_IDX_H - 1))

\* C11: for every enum of the protocol and every byte its decoder accepts,
\* decoding the byte and encoding the item again yields the same byte
C11WireRoundTrip == Reencoded => ret[2] = call[1].arg

\* a PWM speed byte was decoded and encoded again
C11Witness ==
    /\ Reencoded
    /\ call[1].type = "Speed"
    /\ call[1].arg = SPEED_PWM_IDX_L + 50
    /\ ret[1] = <<"Ok", Speed("PwmDutyCycle", 50)>>

\* C12: every Speed value, PwmDutyCycle(p) for every p of a u8 included, is
\* encoded to a byte of {0..3} \cup {100..199}, which decodes back to a Speed
C12SpeedEncodingInRange ==
    Encoded /\ call[1].type = "Speed" =>
        /\ ret[1] \in SpeedWireRange
        /\ Len(ret) = 2 => ret[2][1] = "Ok"

\* a PwmDutyCycle of the full duty was encoded and the byte decoded
C12Witness ==
    /\ Encoded
    /\ call[1].type = "Speed"
    /\ call[1].arg = Speed("PwmDutyCycle", SPEED_PWM_RANGE)
    /\ Len(ret) = 2


\* the last call decoded the byte of the call
Decoded == call[1].of = "byte" /\ Len(ret) >= 1

\* the last call retrieved the operation of a header that could be read
HeaderRetrieved == call[1].of = "header" /\ Len(ret) = 1 /\ call[1].arg.header_ok

\* the bytes each decoder is specified to accept
AcceptedCodes ==
    [Operation |-> 1..5, LocoId |-> 1..2, SensorId |-> 1..8, ActuatorId |-> 1..8,
     ActuatorType |-> {1}, SwitchRailsState |-> 1..2, Direction |-> 1..2,
     Speed |-> SpeedWireRange]

\* the error each decoder is specified to return for any other byte
Rejections ==
    [Operation |-> "UnknownOperation", LocoId |-> "UnknownLocoId",
     SensorId |-> "UnknownSensorId", ActuatorId |-> "UnknownActuatorId",
     ActuatorType |-> "UnknownActuatorType",
     SwitchRailsState |-> "UnknownSwitchRailsState",
     Direction |-> "UnknownDirection", Speed |-> "UnknownSpeed"]

\* C13: each decoder accepts exactly its codes and answers every other byte
\* with its UnknownXxx error carrying that byte; a header whose magic is not
\* 0xAB is rejected for its magic whatever its operation byte is
C13UnknownCodesRejected ==
    /\ Decoded =>
            IF call[1].arg \in AcceptedCodes[call[1].type]
            THEN ret[1][1] = "Ok"
            ELSE ret[1] = <<"Err", Rejections[call[1].type], call[1].arg>>
    /\ HeaderRetrieved /\ call[1].arg.magic # 171 =>
            ret[1] = [err |-> "InvalidBackendProtocolMagicNumber", op |-> None]

\* the byte after the PWM range was handed to the decoder of Speed
C13Witness ==
    /\ Decoded
    /\ call[1].type = "Speed"
    /\ call[1].arg = 200
    /\ ret[1] = <<"Err", "UnknownSpeed", 200>>

\* a header of a wrong magic and of an unknown operation was rejected
C13WitnessHeader ==
    /\ HeaderRetrieved
    /\ call[1].arg.magic = 170
    /\ call[1].arg.operation = 9
    /\ ret[1].err = "InvalidBackendProtocolMagicNumber"


--------------------------------------------------------------------------
(* The conflict relation                                                   *)

\* the last call looked up the two segments of the call
PairLookedUp == call # None /\ call[1][1] \in SegmentIds /\ ret # None

\* the two segments require one actuator in different states
OpposedRequirements(a, b) ==
    \E i \in 1..Len(a), j \in 1..Len(b) :
        a[i].actuator_id = b[j].actuator_id /\ a[i].state # b[j].state

\* C20: no segment conflicts with itself, a segment is in the conflicts of
\* another exactly when the other is in its own, and two distinct segments
\* that require the same actuator in different states conflict mutually
C20ConflictRelation ==
    PairLookedUp =>
        LET a == call[1][1]
            b == call[1][2]
            ab == Contains(ret[1].conflicts[1], b)
            ba == Contains(ret[1].conflicts[2], a)
        IN  /\ a = b => ~ab
            /\ ab <=> ba
            /\ a # b /\ OpposedRequirements(ret[1].switch_rails[1],
                                            ret[1].switch_rails[2]) => ab /\ ba

\* the segments through SwitchRails2, Direct and Diverted, were looked up
C20Witness ==
    /\ PairLookedUp
    /\ call[1] = <<"Segment8", "Segment1">>
    /\ OpposedRequirements(ret[1].switch_rails[1], ret[1].switch_rails[2])
    /\ Contains(ret[1].conflicts[1], "Segment1")


--------------------------------------------------------------------------
(* Sessions                                                                *)

\* the last step was a POST /control_loco in manual mode whose write to the
\* transport of the loco failed
WriteFailed ==
    /\ http # None
    /\ http[1].handler = "control_loco"
    /\ ~oracle_enabled
    /\ ~http[1].write_ok

\* C15: after a write to the transport of a loco has failed with an I/O
\* error, the transport handle of that loco is absent
C15SessionTornDown == WriteFailed => stream[http[1].form[1]] = None

\* a write to the transport of a connected loco failed
C15Witness == WriteFailed /\ stream[http[1].form[1]] # None

\* the frame is a Connect for a known loco, whole and of the right magic
ValidConnect(frame) ==
    /\ frame.header_ok
    /\ frame.magic = 171
    /\ frame.operation = 1
    /\ frame.payload # <<>>
    /\ frame.payload[1] \in 1..2

\* the loco a valid Connect names
Connecting(frame) == IF frame.payload[1] = 1 THEN "Loco1" ELSE "Loco2"

\* C16: a step that handles a connection whose first frame is a valid
\* Connect for L replaces the transport handle of L and changes nothing
\* else: the locations and intents, the session of the other loco, the
\* session of the actuators, oracle_enabled and last_segment_id stay
C16ReconnectOverwriteOnly ==
    [][conn' # None /\ ValidConnect(conn'[1].frame) =>
            /\ stream' = [stream EXCEPT ![Connecting(conn'[1].frame)] = Some("TcpStream")]
            /\ UNCHANGED <<location, intent, actuator_stream, oracle_enabled,
                           last_segment_id>>]_vars

\* a Connect for Loco1 was installed while Loco1 had a location and an
\* intent, Loco2 and the actuators a session and the Oracle was enabled
C16Witness ==
    /\ conn # None
    /\ conn[1].result = <<"Ok">>
    /\ Connecting(conn[1].frame) = "Loco1"
    /\ location["Loco1"] # None
    /\ intent["Loco1"] # None
    /\ stream["Loco2"] # None
    /\ actuator_stream # None
    /\ oracle_enabled

\* C17: a step that handles a connection whose first frame is not a valid
\* Connect (unreadable, wrong magic, unknown or other operation, unknown
\* loco id) returns an error and leaves the registry as it was
C17InvalidConnectRejected ==
    [][conn' # None /\ ~ValidConnect(conn'[1].frame) =>
            /\ conn'[1].result # <<"Ok">>
            /\ UNCHANGED <<stream, location, intent, actuator_stream, oracle_enabled,
                           last_segment_id>>]_vars

\* a Connect for an unknown loco was refused while Loco1 had a session
C17Witness ==
    /\ conn # None
    /\ conn[1].frame.operation = 1
    /\ conn[1].frame.payload = <<3>>
    /\ conn[1].result = <<"ConvertLocoProtocolType">>
    /\ stream["Loco1"] # None


--------------------------------------------------------------------------
(* Threads                                                                 *)

\* thread t is between the write and the read of a loco_status on loco l
InRoundTrip(t, l) == pc[t].op = "loco_status" /\ pc[t].on = l /\ pc[t].at = "read"

\* thread t is in an operation whose next statement cannot run
Blocked(t) == pc[t].op # "idle" /\ ~ENABLED step(t)

\* C14: while a thread is between the write of a LocoStatus request to the
\* transport of a loco and the read of its reply it holds the lock of the
\* loco, and on each transport the first thing a thread does after a
\* LocoStatus request is the read of the reply by the thread that wrote the
\* request: no write, read or install of another thread comes in between
C14AtomicRoundTrip ==
    \A l \in LocoIds :
        /\ \A t \in Callers : InRoundTrip(t, l) => holder[l] = Some(t)
        /\ \A i \in 1..Len(log[l]), j \in 1..Len(log[l]) :
                /\ i < j
                /\ log[l][i].ev = "loco_status"
                /\ log[l][j].by # "Device"
                /\ \A k \in (i + 1)..(j - 1) : log[l][k].by = "Device"
                => log[l][j] = [by |-> log[l][i].by, ev |-> "read"]

\* the Oracle is between the write and the read on Loco1 while the HTTP
\* worker and the acceptor wait for the lock of Loco1
C14Witness ==
    /\ InRoundTrip("Oracle", "Loco1")
    /\ pc["Http"].op = "control_loco" /\ pc["Http"].on = "Loco1" /\ pc["Http"].at = "lock"
    /\ pc["Locos"].on = "Loco1" /\ pc["Locos"].at = "lock"

\* C18: no thread holds two locks, a thread that holds a lock is not
\* waiting for one, and a caller inside an operation whose next statement
\* cannot run either waits for a lock that a thread operating on the same
\* loco or on the actuators holds, or waits for the reply of the loco it
\* asked: a caller blocked on Loco1 stops no operation on Loco2 or on the
\* actuators
C18LockIsolation ==
    /\ \A t \in Threads : Cardinality({m \in Mutexes : holder[m] = Some(t)}) <= 1
    /\ \A m \in Mutexes : holder[m] # None => pc[holder[m][1]].at # "lock"
    /\ \A t \in Callers :
            Blocked(t) =>
                \/ /\ pc[t].at = "lock"
                   /\ holder[pc[t].on] # None
                   /\ pc[holder[pc[t].on][1]].on = pc[t].on
                \/ /\ pc[t].at = "read"
                   /\ Count(pc[t].on, "reply") = Count(pc[t].on, "read")

\* the Oracle is blocked in the read on Loco1, whose device is silent, while
\* the HTTP worker holds the lock of Loco2 and is about to write
C18Witness ==
    /\ InRoundTrip("Oracle", "Loco1")
    /\ Blocked("Oracle")
    /\ pc["Http"].on = "Loco2" /\ pc["Http"].at = "write"
    /\ holder["Loco2"] = Some("Http")
    /\ ENABLED step("Http")

\* C19: while an accepted connection has not delivered its first frame,
\* backend_locos can accept a connection that waits; the failure of a
\* handler is logged
C19ListenerThreads ==
    /\ \A c \in Clients, d \in Clients :
            /\ clients[c].at = "accepted"
            /\ clients[c].sent = "nothing"
            /\ clients[d].at = "queued"
            => ENABLED accept(d)
    /\ \A c \in Clients :
            clients[c].at = "refused" => Contains(log["error!"], [by |-> "Locos", ev |-> c])

\* a client that has sent its Connect waits behind an accepted one that
\* has sent nothing
C19Witness ==
    /\ clients["ClientA"] = [at |-> "accepted", sent |-> "nothing"]
    /\ clients["ClientB"] = [at |-> "queued", sent |-> "Loco1"]


--------------------------------------------------------------------------
(* Ticks that follow one another                                           *)

\* the tick granted segment sid to loco l: it planned sid for l and its
\* command list holds (l, _, Normal)
Granted(l, sid) == TickDecided /\ Requests(l, sid) /\ Commanded(l, SpeedNormal)

\* C21: a loco commanded Normal onto segment S in a completed tick is
\* commanded Normal again in the next completed tick that finds its location
\* and intent unchanged and plans S for it (its next checkpoint is not
\* busy), whatever the other loco asks for
C21NoPreemption ==
    [][\A l \in LocoIds, S \in SegmentIds :
            (/\ tick.stage = "Done"
             /\ Granted(l, S)
             /\ tick'.stage = "Done"
             /\ location'[l] = location[l]
             /\ intent'[l] = intent[l]
             /\ Requests(l, S)') =>
                Commanded(l, SpeedNormal)']_vars

\* Loco2, granted a segment of the station track by the last tick, is
\* stopped by this one, which grants the conflicting segment of the main
\* track to Loco1
C21Witness ==
    /\ tick.stage = "Done"
    /\ \E S \in SegmentIds :
            /\ last_segment_id["Loco2"] = Some(S)
            /\ Requests("Loco2", S)
            /\ Commanded("Loco2", SpeedStop)
            /\ \E T \in SegmentIds :
                    /\ Contains(segments[S].conflicts, T)
                    /\ Granted("Loco1", T)


--------------------------------------------------------------------------
(* The path search                                                         *)

\* the last call was a path search that returned
Searched ==
    call # None /\ call[1][1] \in {"track_id_target", "checkpoint_id_target"} /\ ret # None

\* checkpoint c is what a search of that kind looks for
Matches(kind, c, target) ==
    IF kind = "track_id_target" THEN checkpoints[c].track_id = target ELSE c = target

\* a checkpoint that matches is reached from c by 1 to n moves in direction d
RECURSIVE Reaches(_, _, _, _, _)
Reaches(kind, c, d, target, n) ==
    /\ n >= 1
    /\ \E i \in 1..Len(checkpoints[c].checkpoint_ids[d]) :
            LET y == checkpoints[c].checkpoint_ids[d][i]
            IN  Matches(kind, y, target) \/ Reaches(kind, y, d, target, n - 1)

\* C26: a path search started at depth 0 (track target or checkpoint
\* target) returns the first neighbour in list order that matches the target
\* if one does; otherwise the first neighbour, in ascending checkpoint
\* priority with ties in list order, from which a match is reached by moves
\* in the given direction along a path of at most longest_path moves; and
\* None exactly when no neighbour starts such a path. Started at depth k the
\* path is of at most longest_path - k moves.
C26PathSearch ==
    Searched =>
        LET kind == call[1][1]
            d == call[1][4]
            target == call[1][5]
            nb == checkpoints[call[1][3]].checkpoint_ids[d]
            direct == {i \in 1..Len(nb) : Matches(kind, nb[i], target)}
            onward == {i \in 1..Len(nb) :
                        Reaches(kind, nb[i], d, target, 6 - call[1][2])}
            Before(i, j) ==
                \/ checkpoints[nb[i]].priority < checkpoints[nb[j]].priority
                \/ checkpoints[nb[i]].priority = checkpoints[nb[j]].priority /\ i < j
        IN  IF direct # {}
                THEN \E i \in direct :
                        /\ ret[1] = Some(nb[i])
                        /\ \A j \in direct : i <= j
            ELSE IF onward # {}
                THEN \E i \in onward :
                        /\ ret[1] = Some(nb[i])
                        /\ \A j \in onward : j = i \/ Before(i, j)
            ELSE ret[1] = None

\* from Checkpoint4 backward no neighbour is on the track of Station2,
\* which is found five moves behind the neighbour returned
C26Witness ==
    /\ Searched
    /\ call[1] = <<"track_id_target", 0, "Checkpoint4", "Backward", "Station2">>
    /\ ret[1] = Some("Checkpoint3")
    /\ ~Reaches("track_id_target", "Checkpoint3", "Backward", "Station2", 4)
    /\ Reaches("track_id_target", "Checkpoint3", "Backward", "Station2", 5)


--------------------------------------------------------------------------
(* Ticks that fail                                                         *)

\* the DriveActuator and ControlLoco frames the tick wrote, in order
CommandFrames == SelectSeq(wire, LAMBDA w : w.bytes[2] \in {2, 5})

\* the frames of the two command lists of the tick, actuators first
ProducedFrames ==
    [c \in 1..Len(tick.actuator_controls) |->
        [to |-> "Actuators",
         bytes |-> <<171, 5, 3, ActuatorIdToU8(tick.actuator_controls[c][1]), 1,
                     tick.actuator_controls[c][3]>>]]
    \o [c \in 1..Len(tick.loco_controls) |->
        [to |-> tick.loco_controls[c][1],
         bytes |-> <<171, 2, 2, DirectionToU8(tick.loco_controls[c][2]),
                     SpeedToU8(tick.loco_controls[c][3])>>]]

\* C22: the command frames a tick writes are the frames of its actuator
\* command list followed by those of its loco command list, each in the
\* order produced, all of them when the tick returns Ok; a tick that
\* returns a DriveActuator or ControlLoco error wrote the frames before the
\* command that failed and none after it
C22EmissionOrder ==
    TickDecided =>
        /\ Len(CommandFrames) <= Len(ProducedFrames)
        /\ CommandFrames = SubSeq(ProducedFrames, 1, Len(CommandFrames))
        /\ tick.stage = "Done" <=> CommandFrames = ProducedFrames
        /\ tick.stage = "Done" <=> tick.result = <<"Ok">>
        /\ tick.stage = "Actuators" =>
                /\ tick.result = <<"DriveActuator", "WriteTcpStream">>
                /\ Len(CommandFrames) < Len(tick.actuator_controls)
        /\ tick.stage = "Locos" =>
                /\ tick.result = <<"ControlLoco", "WriteTcpStream">>
                /\ Len(CommandFrames) >= Len(tick.actuator_controls)

\* a tick of two turnouts and two locos whose last write failed
C22Witness ==
    /\ tick.stage = "Locos"
    /\ Len(tick.actuator_controls) = 2
    /\ Len(tick.loco_controls) = 2
    /\ Len(CommandFrames) = 3


\* the tick ended on a command write that failed
WriteFailedInTick == tick.stage \in {"Actuators", "Locos"}

\* C23: after a tick that ended on a failed drive_actuator or control_loco
\* write, last_segment_id[L] = S for every loco L the tick granted S,
\* whether the Normal command of L was written or not
C23BestEffortBookkeeping ==
    WriteFailedInTick =>
        \A l \in LocoIds, S \in SegmentIds :
            Granted(l, S) => last_segment_id[l] = Some(S)

\* the first write of a tick failed: Loco1 was granted Segment1, its
\* Normal command was not written and last_segment_id holds the grant
C23Witness ==
    /\ WriteFailedInTick
    /\ CommandFrames = <<>>
    /\ Granted("Loco1", "Segment1")
    /\ last_segment_id["Loco1"] = Some("Segment1")

\* C24: a step sets last_segment_id[L] to S only if it is a tick that
\* granted S to L; a loco that is commanded Stop, has a null ActiveSegment,
\* is skipped or is disconnected keeps its entry, and no entry is removed
C24LastSegmentOnGrant ==
    [][\A l \in LocoIds :
            /\ last_segment_id'[l] # last_segment_id[l] =>
                    \E S \in SegmentIds :
                        last_segment_id'[l] = Some(S) /\ Granted(l, S)'
            /\ last_segment_id[l] # None => last_segment_id'[l] # None]_vars

\* Loco1 asked for the segment it was granted before and was stopped, Loco2
\* was granted: the entry of Loco1 is the old one
C24Witness ==
    /\ TickDecided
    /\ Commanded("Loco1", SpeedStop)
    /\ \E S \in SegmentIds : Requests("Loco1", S) /\ last_segment_id["Loco1"] = Some(S)
    /\ \E T \in SegmentIds : Granted("Loco2", T)


--------------------------------------------------------------------------
(* The priority ordering                                                   *)

\* the position of the entry of loco l in a list of active segments
PositionOf(list, l) == CHOOSE i \in 1..Len(list) : list[i].loco_id = l

\* the priority by which the claim orders an entry: that of its segment
PriorityOf(a) == segments[a.id[1]].priority

\* the loco command list holds a command of that speed for loco l
Holds(loco_controls, l, speed) ==
    \E i \in 1..Len(loco_controls) :
        loco_controls[i][1] = l /\ loco_controls[i][3] = speed

\* the two segments conflict, whichever of them lists the other
InConflict(S1, S2) ==
    \/ Contains(segments[S1].conflicts, S2)
    \/ Contains(segments[S2].conflicts, S1)

\* C25: the sorted active segments of a tick are the re-ordered ones in
\* ascending segment priority with the null entries last and entries of
\* equal priority in the order the re-ordering left them; two locos that
\* ask for conflicting segments of different priority are commanded Normal
\* (the lower priority number) and Stop (the other), whatever the order in
\* which the locos were enumerated
C25PriorityOrdering ==
    [][TickDecided' =>
        \A prior \in {reorder(tick'.active_segments, Len(tick'.active_segments),
                              last_segment_id)},
           sorted \in {tick'.sorted_active_segments} :
            /\ Len(sorted) = Len(prior)
            /\ \A i \in 1..Len(prior) : \E j \in 1..Len(sorted) : sorted[j] = prior[i]
            /\ \A i, j \in 1..Len(sorted) :
                    i < j =>
                        /\ sorted[i].id = None => sorted[j].id = None
                        /\ sorted[i].id # None /\ sorted[j].id # None =>
                                PriorityOf(sorted[i]) <= PriorityOf(sorted[j])
            /\ \A i, j \in 1..Len(prior) :
                    /\ i < j
                    /\ \/ prior[i].id = None /\ prior[j].id = None
                       \/ /\ prior[i].id # None
                          /\ prior[j].id # None
                          /\ PriorityOf(prior[i]) = PriorityOf(prior[j])
                    => PositionOf(sorted, prior[i].loco_id)
                            < PositionOf(sorted, prior[j].loco_id)
            /\ \A i, j \in 1..Len(prior) :
                    /\ prior[i].id # None
                    /\ prior[j].id # None
                    /\ InConflict(prior[i].id[1], prior[j].id[1])
                    /\ PriorityOf(prior[i]) < PriorityOf(prior[j])
                    => /\ Holds(tick'.loco_controls, prior[i].loco_id, SpeedNormal)
                       /\ Holds(tick'.loco_controls, prior[j].loco_id, SpeedStop)]_vars

\* Loco1 was enumerated first and asks for Segment8 (Priority1), Loco2 asks
\* for the conflicting Segment1 (Priority0): Loco2 is first in the sorted
\* list and is commanded Normal, Loco1 Stop
C25Witness ==
    /\ TickDecided
    /\ Len(tick.active_segments) = 2
    /\ tick.active_segments[1].loco_id = "Loco1"
    /\ Requests("Loco1", "Segment8")
    /\ Requests("Loco2", "Segment1")
    /\ tick.sorted_active_segments[1].loco_id = "Loco2"
    /\ Commanded("Loco2", SpeedNormal)
    /\ Commanded("Loco1", SpeedStop)


--------------------------------------------------------------------------
(* Ticks that fail before the commands                                     *)

\* the tick returned from active_locos or determine_active_segments
FailedBeforeCommands == tick.stage \in {"Gather", "Plan"}

\* the tick saw loco l
Gathered(l) == \E k \in 1..Len(tick.active_locos) : tick.active_locos[k].id = l

\* C27: a tick in which the status round trip of a connected loco fails
\* does not get past the gathering; a tick that returns from the gathering
\* or from the planning returns a LocoStatus error other than
\* LocoNotConnected or a topology error, has written no DriveActuator and
\* no ControlLoco frame and has left last_segment_id as it was; the next
\* tick can run
C27EarlyFailure ==
    /\ [](FailedBeforeCommands => ENABLED NextFault)
    /\ [][TickGathered' =>
            \A l \in LocoIds : (stream'[l] # None) <=> Gathered(l)']_vars
    /\ [][FailedBeforeCommands' =>
            /\ tick'.stage = "Gather" =>
                    /\ tick'.result[1] = "LocoStatus"
                    /\ tick'.result[2] \in {"WriteTcpStream", "DecodeFromStream",
                                             "ConvertLocoProtocolType"}
            /\ tick'.stage = "Plan" =>
                    tick'.result[1] \in {"NextCheckpointNotFound",
                                         "ConvertCheckpointsIntoSegmentId"}
            /\ CommandFrames' = <<>>
            /\ last_segment_id' = last_segment_id]_vars

\* Loco1 was granted a segment in an earlier tick; in this tick one status
\* round trip succeeded and the reply of the other could not be read, with
\* both locos located and holding an intent
C27Witness ==
    /\ tick.stage = "Gather"
    /\ tick.result = <<"LocoStatus", "DecodeFromStream">>
    /\ Len(wire) = 2
    /\ last_segment_id["Loco1"] # None
    /\ \A l \in LocoIds : location[l] # None /\ intent[l] # None


--------------------------------------------------------------------------
(* The loco command list                                                   *)

\* the positions of the commands for loco l in the loco command list
CommandsOf(l) == {i \in 1..Len(tick.loco_controls) : tick.loco_controls[i][1] = l}

\* loco l is connected and has a known location and a declared intent
Plannable(l) == stream[l] # None /\ location[l] # None /\ intent[l] # None

\* C28: in every tick whose planning succeeds the loco command list holds
\* exactly one command for each connected loco with a known location and a
\* declared intent and none for any other loco; the speed of every command
\* is Stop or Normal and its direction is that of the loco's intent
C28OneCommandPerLoco ==
    TickDecided =>
        /\ \A l \in LocoIds :
                Cardinality(CommandsOf(l)) = IF Plannable(l) THEN 1 ELSE 0
        /\ \A i \in 1..Len(tick.loco_controls) :
                /\ tick.loco_controls[i][1] \in LocoIds
                /\ tick.loco_controls[i][3] \in {SpeedStop, SpeedNormal}
                /\ intent[tick.loco_controls[i][1]] # None
                /\ tick.loco_controls[i][2] = intent[tick.loco_controls[i][1]][1].direction

\* a tick of two plannable locos: Loco1 is sent Backward Normal and Loco2
\* Stop
C28Witness ==
    /\ TickDecided
    /\ Len(tick.loco_controls) = 2
    /\ \E i \in 1..2 : tick.loco_controls[i] = <<"Loco1", "Backward", SpeedNormal>>
    /\ Commanded("Loco2", SpeedStop)

\* a tick of one plannable loco and one connected loco without an intent
C28WitnessSkipped ==
    /\ TickDecided
    /\ Len(tick.loco_controls) = 1
    /\ \A l \in LocoIds : stream[l] # None
    /\ location["Loco2"] # None
    /\ intent["Loco2"] = None

--------------------------------------------------------------------------
(* Busy checkpoints                                                        *)

\* the checkpoint the planning of the tick heads loco l for, seen at cp
\* with intent int; None when it has arrived
PlannedNext(cp, int) ==
    IF int.kind = "Drive" THEN next_for_track_id[cp][int.direction][int.target]
    ELSE IF int.target = cp THEN None
    ELSE next_for_checkpoint_id[cp][int.direction][int.target]

\* the active segment of loco l in the tick is a null one
NullSegment(l) ==
    \E i \in 1..Len(tick.active_segments) :
        /\ tick.active_segments[i].loco_id = l
        /\ tick.active_segments[i].id = None
        /\ tick.active_segments[i].segment = None

\* every actuator command of the tick is a switch requirement of a segment
\* granted to a loco other than l
NoSwitchCommandFor(l) ==
    \A c \in 1..Len(tick.actuator_controls) :
        \E j \in GrantedEntries :
            /\ tick.sorted_active_segments[j].loco_id # l
            /\ Contains(Requirements(tick.sorted_active_segments[j].id[1]),
                        tick.actuator_controls[c])

\* C29: when the next checkpoint planned for a loco is the location of a
\* loco that reported Stop in the gathering of the tick, with or without
\* an intent, the loco gets a null ActiveSegment, is commanded Stop and not
\* Normal, and no switch command of the tick is for it
C29BusyCheckpointBlocks ==
    TickDecided =>
        \A l \in LocoIds, cp \in CheckpointIds :
            \A a \in {tick.active_locos[k] : k \in 1..Len(tick.active_locos)} :
                /\ a.id = l
                /\ a.location = Some(cp)
                /\ a.intent # None
                /\ PlannedNext(cp, a.intent[1]) # None
                /\ StoppedAt(PlannedNext(cp, a.intent[1])[1])
                => /\ NullSegment(l)
                   /\ Commanded(l, SpeedStop)
                   /\ ~Commanded(l, SpeedNormal)
                   /\ \A S \in SegmentIds : ~Requests(l, S)
                   /\ NoSwitchCommandFor(l)

\* Loco1 at Checkpoint1 is headed for Checkpoint2, where Loco2 stands
\* stopped without an intent: Loco1 is commanded Stop and no actuator
\* command is produced
C29Witness ==
    /\ TickDecided
    /\ Saw("Loco1", "Checkpoint1", Drive("Forward", "Track1"))
    /\ \E k \in 1..Len(tick.active_locos) :
            /\ tick.active_locos[k].id = "Loco2"
            /\ tick.active_locos[k].location = Some("Checkpoint2")
            /\ tick.active_locos[k].intent = None
            /\ tick.active_locos[k].speed = SpeedStop
    /\ NullSegment("Loco1")
    /\ Commanded("Loco1", SpeedStop)
    /\ tick.actuator_controls = <<>>

--------------------------------------------------------------------------
(* Drive intents on the target track                                       *)

\* the tick saw loco l with a Drive intent at a checkpoint of its target
\* track
OnTargetTrack(l) ==
    \E k \in 1..Len(tick.active_locos) :
        /\ tick.active_locos[k].id = l
        /\ tick.active_locos[k].location # None
        /\ tick.active_locos[k].intent # None
        /\ tick.active_locos[k].intent[1].kind = "Drive"
        /\ checkpoints[tick.active_locos[k].location[1]].track_id
                = tick.active_locos[k].intent[1].target

\* C30: a loco with intent Drive(dir, T) that a tick sees at a checkpoint
\* whose track is T is not commanded Normal by that tick
C30DriveEndsOnTarget ==
    TickDecided => \A l \in LocoIds : OnTargetTrack(l) => ~Commanded(l, SpeedNormal)

\* C30, as the code has it: a loco with intent Drive(dir, T) that a tick
\* sees at a checkpoint cp whose track is T is planned like any other: the
\* search from cp finds a next checkpoint; when a stopped loco stands
\* there the loco is commanded Stop, otherwise it asks for the segment
\* from cp to that checkpoint and is commanded Normal when no other loco
\* asks for a segment in the tick
C30DriveKeepsSearching ==
    TickDecided =>
        \A l \in LocoIds, cp \in CheckpointIds, d \in Directions, T \in TrackIds :
            Saw(l, cp, Drive(d, T)) /\ checkpoints[cp].track_id = T =>
                LET next == next_for_track_id[cp][d][T]
                IN  /\ next # None
                    /\ next[1] # cp
                    /\ IF StoppedAt(next[1])
                       THEN NullSegment(l) /\ Commanded(l, SpeedStop)
                       ELSE /\ TryIntoSegmentId(cp, next[1]) # None
                            /\ Requests(l, TryIntoSegmentId(cp, next[1])[1])
                            /\ (\A m \in LocoIds \ {l}, S \in SegmentIds : ~Requests(m, S))
                                    => Commanded(l, SpeedNormal)

\* Loco1 stands at Station1 with intent Drive(Forward, Station1), is asked
\* to leave for Checkpoint2 over Segment8 and is commanded Normal
C30Witness ==
    /\ TickDecided
    /\ Saw("Loco1", "Station1", Drive("Forward", "Station1"))
    /\ Requests("Loco1", "Segment8")
    /\ Commanded("Loco1", SpeedNormal)


--------------------------------------------------------------------------
(* Sensor ingest                                                           *)

\* the frame is a SensorsStatus frame of a good header whose records all
\* name a known loco and a known sensor
ValidSensorsStatus(in) ==
    /\ in.header_ok
    /\ in.magic = 171
    /\ in.operation = 4
    /\ \A i \in 1..Len(in.payload) :
            in.payload[i][1] \in 1..8 /\ in.payload[i][2] \in 1..2

\* the positions of the records of the frame that name loco l
RecordsOf(in, l) == {i \in 1..Len(in.payload) : in.payload[i][2] = LocoIdToU8(l)}

\* the sensor of the last record of the frame that names loco l
LastSensorOf(in, l) ==
    LET last == CHOOSE i \in RecordsOf(in, l) : \A j \in RecordsOf(in, l) : j <= i
    IN  CHOOSE s \in SensorIds : SensorIdToU8(s) = in.payload[last][1]

\* C31: a valid SensorsStatus frame sets the location of each loco it names
\* to the sensor of the last record naming it, connected or not, leaves the
\* location of every other loco, every stream and every intent as they
\* were and keeps the session going; a frame of another operation, of a bad
\* magic number or with an unknown id ends the session with an error, and
\* no frame is read after it
C31SensorIngest ==
    /\ [](ret # None /\ ret # Some(<<"Ok">>) => ~ENABLED NextSensors)
    /\ [][\A in \in {call'[1]} :
            /\ stream' = stream
            /\ intent' = intent
            /\ actuator_stream' = actuator_stream
            /\ IF ValidSensorsStatus(in)
               THEN /\ ret' = Some(<<"Ok">>)
                    /\ \A l \in LocoIds :
                            location'[l] = IF RecordsOf(in, l) = {} THEN location[l]
                                           ELSE Some(LastSensorOf(in, l))
               ELSE /\ ret' # Some(<<"Ok">>)
                    /\ in.header_ok /\ in.magic # 171 =>
                            ret' = Some(<<"InvalidBackendProtocolMagicNumber">>)
                    /\ in.header_ok /\ in.magic = 171 /\ in.operation \in {1, 2, 3, 5} =>
                            ret'[1][1] = "UnsupportedOperation"
                    /\ in.header_ok /\ in.magic = 171 /\ in.operation = 4 =>
                            ret' = Some(<<"ConvertLocoProtocolType">>)]_vars

\* a frame of two records for Loco2, which is not connected and was located
\* elsewhere: its location is the sensor of the second record, the
\* location of Loco1 is the one an earlier frame gave it
C31Witness ==
    /\ call = Some(Incoming(TRUE, 171, 4, <<<<1, 2>>, <<2, 2>>>>))
    /\ ret = Some(<<"Ok">>)
    /\ stream["Loco2"] = None
    /\ location["Loco2"] = Some("RfidReader2")
    /\ location["Loco1"] = Some("RfidReader1")

\* the session ended on a record of an unknown sensor
C31WitnessEnded ==
    /\ call # None
    /\ ValidSensorsStatus(call[1]) = FALSE
    /\ call[1].operation = 4
    /\ call[1].header_ok
    /\ call[1].magic = 171
    /\ ret = Some(<<"ConvertLocoProtocolType">>)


--------------------------------------------------------------------------
(* Work conservation                                                       *)

\* the positions of the sorted active segments that are not null
NonNullEntries ==
    {i \in 1..Len(tick.sorted_active_segments) : tick.sorted_active_segments[i].id # None}

\* C32: in every tick whose planning succeeds and in which some loco has a
\* non-null ActiveSegment, the loco of the first non-null entry of the
\* sorted list is commanded Normal, so at least one loco is
C32WorkConserving ==
    TickDecided /\ NonNullEntries # {} =>
        LET first == CHOOSE i \in NonNullEntries : \A j \in NonNullEntries : i <= j
        IN  /\ first \in GrantedEntries
            /\ tick.loco_controls[first] =
                    <<tick.sorted_active_segments[first].loco_id,
                      tick.sorted_active_segments[first].direction, SpeedNormal>>
            /\ \E l \in LocoIds : Commanded(l, SpeedNormal)

\* two locos ask for conflicting segments: the first of the sorted list is
\* commanded Normal, the second Stop
C32Witness ==
    /\ TickDecided
    /\ NonNullEntries = {1, 2}
    /\ InConflict(tick.sorted_active_segments[1].id[1], tick.sorted_active_segments[2].id[1])
    /\ tick.loco_controls[1][3] = SpeedNormal
    /\ tick.loco_controls[2][3] = SpeedStop


--------------------------------------------------------------------------
(* Starvation                                                              *)

\* both locos are connected; Loco1 stands at Station1 and Loco2 at
\* Checkpoint1, both with intent Drive(Forward, Track1): Loco1 asks for
\* Segment8 (Priority1) and Loco2 for the conflicting Segment1 (Priority0)
Contested ==
    /\ \A l \in LocoIds : stream[l] # None
    /\ location = [l \in LocoIds |-> IF l = "Loco1" THEN Some("RfidReader7")
                                     ELSE Some("RfidReader1")]
    /\ intent = [l \in LocoIds |-> Some(Drive("Forward", "Track1"))]
    /\ oracle_enabled

\* C33: an execution in which a loco starves exists: when the sensors keep
\* reporting Loco1 at Station1 and Loco2 at Checkpoint1, every tick
\* commands Loco1 Stop and never Normal, for ever, while Loco2 is commanded
\* Normal again and again
C33StarvationPossible ==
    /\ [](Contested /\ TickDecided =>
            Commanded("Loco1", SpeedStop) /\ ~Commanded("Loco1", SpeedNormal))
    /\ []<>(Contested => tick.stage = "Done" /\ Commanded("Loco2", SpeedNormal))

\* a tick of that execution after Loco2 was granted Segment1 before
C33Witness ==
    /\ Contested
    /\ tick.stage = "Done"
    /\ Requests("Loco1", "Segment8")
    /\ Requests("Loco2", "Segment1")
    /\ Commanded("Loco1", SpeedStop)
    /\ Commanded("Loco2", SpeedNormal)
    /\ last_segment_id = [l \in LocoIds |-> IF l = "Loco2" THEN Some("Segment1") ELSE None]


--------------------------------------------------------------------------
(* The enumeration order                                                   *)

\* the statuses the tick gathered, in every order loco_ids() can yield them
Enumerations(locos) ==
    {p \in [1..Len(locos) -> {locos[k] : k \in 1..Len(locos)}] :
        \A a \in {locos[k] : k \in 1..Len(locos)} : \E i \in 1..Len(locos) : p[i] = a}

\* the commands of a list of loco commands, without their order
CommandSet(loco_controls) == {loco_controls[i] : i \in 1..Len(loco_controls)}

\* C34: a tick on the same statuses and the same last_segment_id produces
\* the same actuator command list and the same command for each loco in
\* whatever order the registry enumerates the loco ids
C34TickDeterminism ==
    [][TickDecided' =>
        \A locos \in Enumerations(tick'.active_locos) :
        \A planned \in {determine_active_segments(locos)} :
        \A sorted \in {sort_active_segments(planned.active_segments, last_segment_id)} :
        \A controls \in {determine_controls(sorted, Len(sorted), last_segment_id)} :
            /\ controls.actuator_controls = tick'.actuator_controls
            /\ CommandSet(controls.loco_controls) = CommandSet(tick'.loco_controls)]_vars

\* Loco1 at Checkpoint1 heading forward and Loco2 at Checkpoint2 heading
\* backward, both moving, ask for Segment1; Loco2 was enumerated first and
\* is the one commanded Normal
C34Witness ==
    /\ TickDecided
    /\ Saw("Loco1", "Checkpoint1", Drive("Forward", "Track1"))
    /\ Saw("Loco2", "Checkpoint2", Drive("Backward", "Station2"))
    /\ tick.active_locos[1].id = "Loco2"
    /\ Requests("Loco1", "Segment1")
    /\ Requests("Loco2", "Segment1")
    /\ Commanded("Loco2", SpeedNormal)
    /\ Commanded("Loco1", SpeedStop)
    /\ last_segment_id["Loco1"] = None


--------------------------------------------------------------------------
(* Planning on the network of RailNetwork::new()                           *)

\* n is a checkpoint next to c in direction d and the pair is a segment
PlannableStep(c, d, n) ==
    /\ n # None
    /\ Contains(checkpoints[c].checkpoint_ids[d], n[1])
    /\ TryIntoSegmentId(c, n[1]) # None

\* C35: for every checkpoint c, direction d and target (a track, or a
\* checkpoint other than c) the search from depth 0 returns a neighbour n
\* of c in direction d and (c, n) is a segment; no tick returns from the
\* planning with NextCheckpointNotFound or ConvertCheckpointsIntoSegmentId
\* (the network is immutable, so the first conjunct is the same in every
\* state: it is evaluated in the states before the first tick)
C35PlanningNeverFails ==
    /\ tick = NoTick =>
        \A c \in CheckpointIds, d \in Directions :
            /\ \A T \in TrackIds : PlannableStep(c, d, next_for_track_id[c][d][T])
            /\ \A t \in CheckpointIds \ {c} :
                    PlannableStep(c, d, next_for_checkpoint_id[c][d][t])
    /\ tick.stage # "Plan"
    /\ tick.result[1] \notin {"NextCheckpointNotFound", "ConvertCheckpointsIntoSegmentId"}

\* a tick that planned a Stop intent whose target lies five checkpoints
\* behind the next one: Loco1 at Checkpoint2 bound forward for Station1
C35Witness ==
    /\ TickDecided
    /\ Saw("Loco1", "Checkpoint2", Stop("Forward", "Station1"))
    /\ Requests("Loco1", "Segment2")
    /\ Commanded("Loco1", SpeedNormal)


--------------------------------------------------------------------------
(* Destinations                                                            *)

\* the tick saw loco l, located and with an intent, and planned checkpoint
\* n as its next one
HeadsFor(l, n) ==
    \E k \in 1..Len(tick.active_locos) :
        /\ tick.active_locos[k].id = l
        /\ tick.active_locos[k].location # None
        /\ tick.active_locos[k].intent # None
        /\ PlannedNext(tick.active_locos[k].location[1], tick.active_locos[k].intent[1])
                = Some(n)

\* the tick saw loco l at checkpoint cp
SeenAt(l, cp) ==
    \E k \in 1..Len(tick.active_locos) :
        tick.active_locos[k].id = l /\ tick.active_locos[k].location = Some(cp)

\* C36: in a completed tick no two locos are both commanded Normal toward
\* the same next checkpoint, and no loco is commanded Normal toward a
\* checkpoint at which the tick saw a loco that it commands Stop
C36NoSharedDestination ==
    tick.stage = "Done" =>
        \A l1, l2 \in LocoIds, n \in CheckpointIds :
            l1 # l2 /\ HeadsFor(l1, n) /\ Commanded(l1, SpeedNormal) =>
                /\ ~(HeadsFor(l2, n) /\ Commanded(l2, SpeedNormal))
                /\ ~(SeenAt(l2, n) /\ Commanded(l2, SpeedStop))

\* Loco1 at Checkpoint1 heading forward and Loco2 at Checkpoint3 heading
\* backward are both commanded Normal toward Checkpoint2
C36Witness ==
    /\ tick.stage = "Done"
    /\ Saw("Loco1", "Checkpoint1", Drive("Forward", "Track1"))
    /\ Saw("Loco2", "Checkpoint3", Drive("Backward", "Track1"))
    /\ HeadsFor("Loco1", "Checkpoint2")
    /\ HeadsFor("Loco2", "Checkpoint2")
    /\ Commanded("Loco1", SpeedNormal)
    /\ Commanded("Loco2", SpeedNormal)

\* Loco2 has arrived at Checkpoint2, still reports Normal and is commanded
\* Stop; Loco1 is commanded Normal toward Checkpoint2
C36WitnessStopped ==
    /\ tick.stage = "Done"
    /\ SeenAt("Loco2", "Checkpoint2")
    /\ Commanded("Loco2", SpeedStop)
    /\ HeadsFor("Loco1", "Checkpoint2")
    /\ Commanded("Loco1", SpeedNormal)


--------------------------------------------------------------------------
(* Actuator failures                                                       *)

\* the ControlLoco frames the last step wrote
ControlLocoFrames == SelectSeq(wire, LAMBDA w : w.bytes[2] = 2)

\* C37: when a drive_actuator call of a tick fails, with a write error or
\* with ActuatorsNotConnected, the tick returns that error and writes no
\* ControlLoco frame to any loco, whatever loco commands it had decided
C37ActuatorFailureSuppresses ==
    tick.stage = "Actuators" =>
        /\ tick.result[1] = "DriveActuator"
        /\ tick.result[2] \in {"ActuatorsNotConnected", "WriteTcpStream"}
        /\ ControlLocoFrames = <<>>
        /\ tick.actuator_controls # <<>>

\* no actuator bank is connected; the tick granted Loco1 a segment with a
\* switch requirement and decided Stop for Loco2: neither command is on
\* the wire
C37Witness ==
    /\ tick.stage = "Actuators"
    /\ tick.result = <<"DriveActuator", "ActuatorsNotConnected">>
    /\ actuator_stream = None
    /\ Commanded("Loco1", SpeedNormal)
    /\ Commanded("Loco2", SpeedStop)
    /\ ControlLocoFrames = <<>>


--------------------------------------------------------------------------
(* A loco whose session has failed                                         *)

\* the last step wrote a ControlLoco frame to loco l
SentControlLoco(l) ==
    \E i \in 1..Len(wire) : wire[i].to = l /\ wire[i].bytes[2] = 2

\* C38: with the Oracle enabled, the actuator bank connected and Loco1
\* connected, answering, located and holding an intent, Loco1 is
\* eventually sent a ControlLoco frame, whatever the session of Loco2 does
C38FailedLocoDoesNotStall == <>SentControlLoco("Loco1")

\* a tick that gathered the status of Loco1 and returned on the transport
\* error of Loco2: Loco1 was sent its status request and nothing else
C38Witness ==
    /\ tick.stage = "Gather"
    /\ tick.result = <<"LocoStatus", "DecodeFromStream">>
    /\ stream["Loco2"] # None
    /\ Contains(wire, Written("Loco1", <<171, 3, 0>>))
    /\ ~SentControlLoco("Loco1")

--------------------------------------------------------------------------
(* Manual commands, Oracle commands and the mode                           *)

\* the last step was the call of the backend by a manual handler and it
\* wrote a frame
ManualFrameWritten ==
    /\ http # None
    /\ http[1].handler \in {"control_loco", "drive_switch_rails"}
    /\ wire # <<>>

\* the last step was the rest of an Oracle tick and it wrote a frame
OracleFrameWritten ==
    /\ tick.stage \notin {"NotCalled", "Disabled"}
    /\ wire # <<>>

\* C39: under every interleaving of a manual request, POST /oracle_mode and
\* the Oracle's ticks, no manual ControlLoco or DriveActuator frame is
\* written while oracle_enabled is true, and no frame of the Oracle is
\* written while oracle_enabled is false
C39ModeCheckAtomic ==
    /\ ManualFrameWritten => ~oracle_enabled
    /\ OracleFrameWritten => oracle_enabled

\* a manual ControlLoco frame written after the mode was set to Auto, or a
\* frame of the Oracle written after the mode was set to Off
C39Witness ==
    \/ ManualFrameWritten /\ oracle_enabled
    \/ OracleFrameWritten /\ ~oracle_enabled


--------------------------------------------------------------------------
(* Sensor ingest beside a stalled status round trip                        *)

\* the Mutex of loco l is held by a loco_status that has written its
\* request and waits for a reply the device has not sent
Stalled(l) ==
    \E t \in Callers :
        /\ holder[mutex_of(l)] = Some(t)
        /\ pc[t].op = "loco_status" /\ pc[t].at = "read"
        /\ Count(l, "reply") = Count(l, "read")

\* the session has delivered a record for loco l that is not yet applied
PendingFor(l) ==
    \E f \in 1..Len(clients) : \E i \in 1..Len(clients[f]) :
        LocoIdTryFrom(clients[f][i][2]) = Some(l)

\* C40: while the lock of Loco1 is held by a stalled loco_status round
\* trip, a location update for Loco2 that the sensor session has delivered
\* is applied all the same, also when it follows a record of Loco1
C40IngestNotHeldUp ==
    (Stalled("Loco1") /\ PendingFor("Loco2"))
        ~> (~PendingFor("Loco2") \/ ~Stalled("Loco1"))

\* the round trip of Loco1 is stalled, the next record of the session is
\* one of Loco1 and a record of Loco2 follows it
C40Witness ==
    /\ Stalled("Loco1")
    /\ clients # <<>>
    /\ LocoIdTryFrom(clients[1][1][2]) = Some("Loco1")
    /\ PendingFor("Loco2")


==========================================================================
